---- MODULE Spec2Model ----
(***************************************************************************)
(* Pepper Pal: a model of the message pipeline and its safety layers.      *)
(*                                                                         *)
(* Texts are sequences of character codes, so that normalisation, hashing  *)
(* and pattern matching are computed the way the JavaScript code computes  *)
(* them.  Time is the value of Date.now() in abstract ticks.               *)
(***************************************************************************)
EXTENDS Integers, Sequences, FiniteSets, TLC

VARIABLES
    now,             \* Date.now()
    maxMessages,     \* config.rateLimit.maxMessages
    rateLimitStore,  \* rateLimit.js: Map userId -> {count, resetTime}
    rlLog,           \* observed: one record per message seen by rateLimit
    cache,           \* responseCache.js: the Map, as its entries in insertion order
    cacheLast,       \* observed: the last cache call, its arguments and its result
    cacheCalls,      \* observed: number of cache calls made so far
    lastSet,         \* observed: the latest set call, forgotten at clear
    recentQueries,   \* duplicateGuard.js: the Map, as its entries in insertion order
    dupLast,         \* observed: the last isDuplicate call and its result
    dupCalls,        \* observed: number of isDuplicate calls made so far
    knowledgeAvailable,  \* knowledge/loader.js: isKnowledgeAvailable()
    pipeLast,        \* observed: the last run of process, what it did and returned
    pipeRuns,        \* observed: number of runs of process so far
    currentMode,     \* admin/modes.js: the operating mode
    botLast,         \* observed: the update being handled, how far it got, the replies
    botMsgs,         \* observed: number of updates handled so far
    request,         \* openrouterClient.js: the chatCompletion call in flight
    applied,         \* observed: the last application of a pure function
    applications,    \* observed: number of applications so far
    knowledgeCache,  \* knowledge/loader.js: the loaded knowledge and its state
    knowledgeLast,   \* observed: the last loader call, what it found and returned
    knowledgeCalls,  \* observed: number of loader calls made so far
    handlers         \* rateLimit.js: where the handler of each message of rlLog is

rateVars == <<maxMessages, rateLimitStore, rlLog>>
cacheVars == <<cache, cacheLast, cacheCalls, lastSet>>
dupVars == <<recentQueries, dupLast, dupCalls>>
pipeVars == <<knowledgeAvailable, pipeLast, pipeRuns>>
botVars == <<currentMode, botLast, botMsgs>>
fetchVars == <<request>>
pureVars == <<applied, applications>>
loaderVars == <<knowledgeCache, knowledgeLast, knowledgeCalls>>
vars == <<now, rateVars, cacheVars, dupVars, pipeVars, botVars, fetchVars, pureVars,
         loaderVars, handlers>>

----------------------------------------------------------------------------
(* Bounds of the model *)

MaxTime == 4            \* the clock stops here
WindowMs == 2           \* config.rateLimit.windowSeconds * 1000, in ticks
MaxMaxMessages == 2     \* largest configured maxMessages explored
MaxRateMsgs == 4        \* messages seen by the rate limiter in one run

MAX_CACHE_SIZE == 2     \* constants.js MAX_CACHE_SIZE (500), scaled down
CACHE_TTL_FACTS == 2    \* constants.js CACHE_TTL.FACTS (one hour), in ticks
CACHE_TTL_STATS == 1    \* constants.js CACHE_TTL.STATS (five minutes), in ticks
MaxCacheCalls == 3      \* cache calls made in one run

MAX_ENTRIES == 3          \* duplicateGuard.js MAX_ENTRIES (1000), scaled down
DUPLICATE_WINDOW_MS == 2  \* duplicateGuard.js DUPLICATE_WINDOW_MS (30 s), in ticks
MaxDupCalls == 4          \* isDuplicate calls made in one run

MaxLatency == 1         \* ticks a call of the remote model can take
MaxPipeRuns == 2        \* runs of process in one behaviour
MaxBotMsgs == 3         \* updates the bot handles in one behaviour
MaxBotTime == 2         \* the clock of the bot's behaviours stops here

NoUser == 0             \* ctx.from?.id undefined
UserIds == {1, 2}
NoChat == 0             \* ctx.chat?.id undefined
ChatIds == {1}          \* the private chat of user 1 has the id of its user

----------------------------------------------------------------------------
(* Strings: JavaScript string operations on sequences of character codes *)

IsUpper(c) == c \in 65..90
Lower(c) == IF IsUpper(c) THEN c + 32 ELSE c
\* \s of a JavaScript regular expression, and the characters trim() removes
IsSpace(c) == c \in {9, 10, 11, 12, 13, 32, 160}
\* \w of a JavaScript regular expression
IsWordChar(c) == c \in 48..57 \/ c \in 65..90 \/ c \in 97..122 \/ c = 95

ToLowerCase(s) == [i \in 1..Len(s) |-> Lower(s[i])]

RECURSIVE TrimStart(_)
TrimStart(s) ==
    IF s # << >> /\ IsSpace(Head(s)) THEN TrimStart(Tail(s)) ELSE s

RECURSIVE TrimEnd(_)
TrimEnd(s) ==
    IF s # << >> /\ IsSpace(s[Len(s)]) THEN TrimEnd(SubSeq(s, 1, Len(s) - 1)) ELSE s

Trim(s) == TrimEnd(TrimStart(s))

\* s.substring(0, n)
Prefix(s, n) == SubSeq(s, 1, IF Len(s) < n THEN Len(s) ELSE n)

\* s.replace(/\s+/g, ' ')
RECURSIVE CollapseWhitespace(_)
CollapseWhitespace(s) ==
    IF s = << >> THEN << >>
    ELSE IF IsSpace(Head(s))
         THEN <<32>> \o CollapseWhitespace(TrimStart(s))
         ELSE <<Head(s)>> \o CollapseWhitespace(Tail(s))

\* s.replace(/[^\w\s]/g, '')
StripPunctuation(s) == SelectSeq(s, LAMBDA c : IsWordChar(c) \/ IsSpace(c))

\* s.includes(part): part occurs in s
includes(s, part) ==
    \E i \in 1..(Len(s) - Len(part) + 1) : SubSeq(s, i, i + Len(part) - 1) = part

startsWith(s, part) ==
    Len(part) <= Len(s) /\ SubSeq(s, 1, Len(part)) = part

endsWith(s, part) ==
    Len(part) <= Len(s) /\ SubSeq(s, Len(s) - Len(part) + 1, Len(s)) = part

----------------------------------------------------------------------------
(* Regular expressions: the patterns of the code as terms, and RegExp.test *)

WhiteSpace == {9, 10, 11, 12, 13, 32, 160}                  \* \s
Digits == 48..57                                            \* \d
WordChars == (48..57) \cup (65..90) \cup (97..122) \cup {95}  \* \w

Lit(s) == <<"lit", s>>          \* the characters of s
OneOf(S) == <<"set", S>>        \* [...]
NoneOf(S) == <<"nset", S>>      \* [^...]
Cat(rs) == <<"cat", rs>>        \* one pattern after the other
Alt(rs) == <<"alt", rs>>        \* a|b
Opt(r) == <<"opt", r>>          \* r?
Plus(r) == <<"plus", r>>        \* r+
Star(r) == <<"star", r>>        \* r*
WordBoundary == <<"wb">>        \* \b
EndOfText == <<"eol">>          \* $
StartOfText == <<"bol">>        \* ^
LineStart == <<"bolm">>         \* ^ under the flag m
LineEnd == <<"eolm">>           \* $ under the flag m
Ahead(r) == <<"ahead", r>>      \* (?=r)
LineTerminators == {10, 13, 8232, 8233}

IsWordAt(t, k) == k \in 1..Len(t) /\ t[k] \in WordChars

\* Ends(r, t, i): the positions where a match of r that starts at position i
\* of t can end (the position after its last character).
\* A character class one or more times from position i: the match can end
\* after each character of the run of its characters that starts there.
EndsRun(class, t, i) ==
    {e \in (i + 1)..(Len(t) + 1) :
        \A j \in i..(e - 1) : (t[j] \in class[2]) = (class[1] = "set")}

RECURSIVE Ends(_, _, _)
RECURSIVE EndsCat(_, _, _, _)
RECURSIVE EndsPlus(_, _, _)

Ends(r, t, i) ==
    CASE r[1] = "lit" ->
           IF i + Len(r[2]) - 1 <= Len(t) /\ SubSeq(t, i, i + Len(r[2]) - 1) = r[2]
           THEN {i + Len(r[2])} ELSE {}
      [] r[1] = "set" -> IF i <= Len(t) /\ t[i] \in r[2] THEN {i + 1} ELSE {}
      [] r[1] = "nset" -> IF i <= Len(t) /\ t[i] \notin r[2] THEN {i + 1} ELSE {}
      [] r[1] = "cat" -> EndsCat(r[2], 1, t, {i})
      [] r[1] = "alt" -> UNION {Ends(r[2][k], t, i) : k \in 1..Len(r[2])}
      [] r[1] = "opt" -> {i} \cup Ends(r[2], t, i)
      [] r[1] = "plus" ->
           IF r[2][1] \in {"set", "nset"} THEN EndsRun(r[2], t, i)
           ELSE EndsPlus(r[2], t, Ends(r[2], t, i))
      [] r[1] = "star" ->
           {i} \cup (IF r[2][1] \in {"set", "nset"} THEN EndsRun(r[2], t, i)
                     ELSE EndsPlus(r[2], t, Ends(r[2], t, i)))
      [] r[1] = "wb" -> IF IsWordAt(t, i - 1) # IsWordAt(t, i) THEN {i} ELSE {}
      [] r[1] = "eol" -> IF i = Len(t) + 1 THEN {i} ELSE {}
      [] r[1] = "bol" -> IF i = 1 THEN {i} ELSE {}
      [] r[1] = "bolm" -> IF i = 1 \/ t[i - 1] \in LineTerminators THEN {i} ELSE {}
      [] r[1] = "eolm" ->
           IF i = Len(t) + 1 \/ t[i] \in LineTerminators THEN {i} ELSE {}
      [] r[1] = "ahead" -> IF Ends(r[2], t, i) # {} THEN {i} ELSE {}

EndsCat(rs, k, t, from) ==
    IF k > Len(rs) \/ from = {} THEN from
    ELSE EndsCat(rs, k + 1, t, UNION {Ends(rs[k], t, j) : j \in from})

EndsPlus(r, t, reached) ==
    LET more == reached \cup UNION {Ends(r, t, j) : j \in reached} IN
    IF more = reached THEN reached ELSE EndsPlus(r, t, more)

\* pattern.test(text)
test(pattern, text) == \E i \in 1..(Len(text) + 1) : Ends(pattern, text, i) # {}

\* patterns.some(p => p.test(text))
some(patterns, text) == \E k \in 1..Len(patterns) : test(patterns[k], text)

\* What text.replace(pattern, replacement) puts in the place of a match:
\* a text of its own ("text"), or the match without its first lead and its
\* last trail characters ("inner": '$1' of a group between delimiters of
\* fixed lengths), or the match from after the first occurrence of a
\* character ("after") or up to before it, without the first lead
\* characters ("before").
Put(replacement) == [kind |-> "text", text |-> replacement]
Inner(lead, trail) == [kind |-> "inner", lead |-> lead, trail |-> trail]
After(c) == [kind |-> "after", char |-> c]
Before(lead, c) == [kind |-> "before", lead |-> lead, char |-> c]

FirstIndex(s, c) ==
    LET at == {i \in 1..Len(s) : s[i] = c} IN
    IF at = {} THEN Len(s) + 1 ELSE CHOOSE i \in at : \A j \in at : i <= j

Substitute(sub, match) ==
    CASE sub.kind = "text" -> sub.text
      [] sub.kind = "inner" -> SubSeq(match, sub.lead + 1, Len(match) - sub.trail)
      [] sub.kind = "after" -> SubSeq(match, FirstIndex(match, sub.char) + 1, Len(match))
      [] sub.kind = "before" ->
           SubSeq(match, sub.lead + 1, FirstIndex(match, sub.char) - 1)

\* text.replace(pattern, replacement) for a pattern with the flag g, from
\* position i on: the leftmost match is taken, as long as its quantifiers
\* can make it, and the search goes on after it.  folded is the text the
\* pattern is matched against: the text itself, or under the flag i the
\* text in lower case.
RECURSIVE ReplaceFrom(_, _, _, _, _)
ReplaceFrom(pattern, sub, text, folded, i) ==
    LET At(start) ==
            LET Taken(end) ==
                    IF end = start
                    THEN Substitute(sub, << >>) \o <<text[start]>>
                             \o ReplaceFrom(pattern, sub, text, folded, start + 1)
                    ELSE Substitute(sub, SubSeq(text, start, end - 1))
                             \o ReplaceFrom(pattern, sub, text, folded, end)
            IN  SubSeq(text, i, start - 1)
                    \o Taken(CHOOSE e \in Ends(pattern, folded, start) :
                                 \A f \in Ends(pattern, folded, start) : f <= e)
        From(starts) ==
            IF starts = {} THEN SubSeq(text, i, Len(text))
            ELSE At(CHOOSE j \in starts : \A k \in starts : j <= k)
    IN  From({j \in i..Len(text) : Ends(pattern, folded, j) # {}})

ReplaceAll(pattern, sub, text) == ReplaceFrom(pattern, sub, text, text, 1)
ReplaceAllIgnoreCase(pattern, sub, text) ==
    ReplaceFrom(pattern, sub, text, ToLowerCase(text), 1)

\* text.replace(pattern, replacement) without the flag g: the first match.
ReplaceFirst(pattern, sub, text) ==
    LET starts == {i \in 1..(Len(text) + 1) : Ends(pattern, text, i) # {}}
        At(i) ==
            LET Upto(end) ==
                    SubSeq(text, 1, i - 1) \o Substitute(sub, SubSeq(text, i, end - 1))
                        \o SubSeq(text, end, Len(text))
            IN  Upto(CHOOSE e \in Ends(pattern, text, i) :
                         \A f \in Ends(pattern, text, i) : f <= e)
    IN  IF starts = {} THEN text ELSE At(CHOOSE i \in starts : \A j \in starts : i <= j)

----------------------------------------------------------------------------
(* Components that take no part in a run stay as they were constructed *)

NoCall == [op |-> "none"]

IdleRate ==
    /\ maxMessages = 1
    /\ rateLimitStore = << >>
    /\ rlLog = << >>

IdleCache ==
    /\ cache = << >>
    /\ cacheLast = NoCall
    /\ cacheCalls = 0
    /\ lastSet = NoCall

IdleDup ==
    /\ recentQueries = << >>
    /\ dupLast = NoCall
    /\ dupCalls = 0

IdlePipe ==
    /\ knowledgeAvailable = TRUE
    /\ pipeLast = NoCall
    /\ pipeRuns = 0

IdleBot ==
    /\ currentMode = "normal"
    /\ botLast = NoCall
    /\ botMsgs = 0

IdleFetch == request = NoCall

IdlePure ==
    /\ applied = NoCall
    /\ applications = 0

\* knowledge/loader.js: the value of knowledgeCache when the module is loaded, and the value
\* loadKnowledge assigns before it validates.
EmptyKnowledgeCache ==
    [loaded |-> FALSE, valid |-> FALSE, content |-> "null", version |-> "null",
     loadedAt |-> -1, errors |-> << >>]

IdleLoader ==
    /\ knowledgeCache = EmptyKnowledgeCache
    /\ knowledgeLast = NoCall
    /\ knowledgeCalls = 0

IdleHandlers == handlers = << >>

OnlyRate == UNCHANGED <<cacheVars, dupVars, pipeVars, botVars, fetchVars, pureVars,
    loaderVars, handlers>>
OnlyCache == UNCHANGED <<rateVars, dupVars, pipeVars, botVars, fetchVars, pureVars,
    loaderVars, handlers>>
OnlyDup == UNCHANGED <<rateVars, cacheVars, pipeVars, botVars, fetchVars, pureVars,
    loaderVars, handlers>>
OnlyPipe == UNCHANGED <<rateVars, dupVars, botVars, fetchVars, pureVars,
    loaderVars, handlers>>
OnlyBot == UNCHANGED <<maxMessages, rlLog, cacheLast, cacheCalls, lastSet,
                       dupLast, dupCalls, pipeVars, fetchVars, pureVars,
                       loaderVars, handlers>>
OnlyFetch == UNCHANGED <<rateVars, cacheVars, dupVars, pipeVars, botVars, pureVars,
    loaderVars, handlers>>
OnlyPure == UNCHANGED <<now, rateVars, cacheVars, dupVars, pipeVars, botVars, fetchVars,
                        loaderVars, handlers>>

----------------------------------------------------------------------------
(* The clock *)

Tick ==
    /\ now < MaxTime
    /\ now' = now + 1

----------------------------------------------------------------------------
(* middleware/rateLimit.js *)

\* Outcome of the middleware for one message: "next" (passed on),
\* "cooldown" (one reply, not passed on) or "silent" (dropped, no reply).
RateLimitDecision_offByOne(store, userId, t, maxM) ==
    IF userId = NoUser THEN "next"
    ELSE IF userId \notin DOMAIN store \/ t > store[userId].resetTime THEN "next"
    ELSE LET c == store[userId].count + 1 IN
         IF c >= maxM
         THEN (IF c = maxM THEN "cooldown" ELSE "silent")
         ELSE "next"

RateLimitDecision_warnEach(store, userId, t, maxM) ==
    IF userId = NoUser THEN "next"
    ELSE IF userId \notin DOMAIN store \/ t > store[userId].resetTime THEN "next"
    ELSE LET c == store[userId].count + 1 IN
         IF c > maxM THEN "cooldown" ELSE "next"

RateLimitDecision(store, userId, t, maxM) ==
    IF userId = NoUser THEN "next"
    ELSE IF userId \notin DOMAIN store \/ t > store[userId].resetTime THEN "next"
    ELSE LET c == store[userId].count + 1 IN
         IF c > maxM
         THEN (IF c = maxM + 1 THEN "cooldown" ELSE "silent")
         ELSE "next"

RateLimitStoreAfter_freshMap(store, userId, t) ==
    IF userId = NoUser THEN store
    ELSE IF userId \notin DOMAIN store \/ t > store[userId].resetTime
         THEN [k \in {userId} |-> [count |-> 1, resetTime |-> t + WindowMs]]
         ELSE [store EXCEPT ![userId].count = @ + 1]

\* The store after the middleware has handled one message.
RateLimitStoreAfter(store, userId, t) ==
    IF userId = NoUser THEN store
    ELSE IF userId \notin DOMAIN store \/ t > store[userId].resetTime
         THEN [k \in DOMAIN store \cup {userId} |->
                  IF k = userId THEN [count |-> 1, resetTime |-> t + WindowMs]
                  ELSE store[k]]
         ELSE [store EXCEPT ![userId].count = @ + 1]

\* One inbound message from userId goes through the middleware.
rateLimit(userId) ==
    /\ Len(rlLog) < MaxRateMsgs
    /\ rateLimitStore' = RateLimitStoreAfter(rateLimitStore, userId, now)
    /\ rlLog' = Append(rlLog,
          [user |-> userId, time |-> now,
           outcome |-> RateLimitDecision(rateLimitStore, userId, now, maxMessages),
           count |-> IF userId = NoUser THEN 0
                     ELSE RateLimitStoreAfter(rateLimitStore, userId, now)[userId].count,
           resetTime |-> IF userId = NoUser THEN 0
                         ELSE RateLimitStoreAfter(rateLimitStore, userId, now)[userId].resetTime])
    /\ UNCHANGED <<now, maxMessages>>
    /\ OnlyRate

\* The setInterval sweep: drops every expired record.
rateLimitCleanup ==
    /\ \E k \in DOMAIN rateLimitStore : now > rateLimitStore[k].resetTime
    /\ rateLimitStore' = [k \in {u \in DOMAIN rateLimitStore :
                                    ~(now > rateLimitStore[u].resetTime)} |->
                             rateLimitStore[k]]
    /\ UNCHANGED <<now, maxMessages, rlLog>>
    /\ OnlyRate

InitRate ==
    /\ now = 0
    /\ maxMessages \in 1..MaxMaxMessages
    /\ rateLimitStore = << >>
    /\ rlLog = << >>
    /\ IdleCache
    /\ IdleDup
    /\ IdlePipe
    /\ IdleBot
    /\ IdleFetch
    /\ IdleLoader
    /\ IdleHandlers
    /\ IdlePure

NextRate ==
    \/ (Tick /\ UNCHANGED rateVars /\ OnlyRate)
    \/ \E u \in UserIds \cup {NoUser} : rateLimit(u)
    \/ rateLimitCleanup

SpecRate == InitRate /\ [][NextRate]_vars

----------------------------------------------------------------------------
(* The queries of the model *)

\* Queries the cache is called with directly:  a  A?  ?  b
CacheQueries ==
    { <<97>>, <<65, 63>>, <<63>>, <<98>> }

\* Messages that go through the pipeline
\* hi
Query_hi ==
    <<104, 105>>

\* Thanks!
Query_thanks ==
    <<84, 104, 97, 110, 107, 115, 33>>

\* Should I buy PEPPER?
Query_shouldIBuy ==
    <<83, 104, 111, 117, 108, 100, 32, 73, 32, 98, 117, 121, 32, 80, 69, 80,
      80, 69, 82, 63>>

\* wen moon
Query_wenMoon ==
    <<119, 101, 110, 32, 109, 111, 111, 110>>

\* is it bullish
Query_bullish ==
    <<105, 115, 32, 105, 116, 32, 98, 117, 108, 108, 105, 115, 104>>

\* jailbreak
Query_jailbreak ==
    <<106, 97, 105, 108, 98, 114, 101, 97, 107>>

\* is it worth it
Query_worthIt ==
    <<105, 115, 32, 105, 116, 32, 119, 111, 114, 116, 104, 32, 105, 116>>

\* What is PEPPER?
Query_WhatIsPepperQ ==
    <<87, 104, 97, 116, 32, 105, 115, 32, 80, 69, 80, 80, 69, 82, 63>>

\* what is pepper
Query_whatIsPepper ==
    <<119, 104, 97, 116, 32, 105, 115, 32, 112, 101, 112, 112, 101, 114>>

\* contract address
Query_contractAddress ==
    <<99, 111, 110, 116, 114, 97, 99, 116, 32, 97, 100, 100, 114, 101, 115,
      115>>

\* how to stake pepper
Query_howToStake ==
    <<104, 111, 119, 32, 116, 111, 32, 115, 116, 97, 107, 101, 32, 112, 101,
      112, 112, 101, 114>>

\* @PepperPal what is pepper
Query_mention ==
    <<64, 80, 101, 112, 112, 101, 114, 80, 97, 108, 32, 119, 104, 97, 116, 32,
      105, 115, 32, 112, 101, 112, 112, 101, 114>>

PipeQueries ==
    {Query_hi, Query_thanks, Query_shouldIBuy, Query_wenMoon, Query_bullish,
     Query_jailbreak, Query_worthIt, Query_WhatIsPepperQ, Query_whatIsPepper,
     Query_contractAddress, Query_howToStake, Query_mention}

\* The questions pipelineHandler asks the duplicate guard about
BotQuestions == {Query_whatIsPepper, Query_shouldIBuy}

----------------------------------------------------------------------------
(* cache/responseCache.js *)

normalizeKey(query) ==
    CollapseWhitespace(StripPunctuation(Trim(ToLowerCase(query))))

\* normalizeKey of each query of the model.
normalizedKeys == [query \in CacheQueries \cup PipeQueries |-> normalizeKey(query)]

\* Position of the entry stored under key, 0 when there is none (Map.get).
CacheIndex(c, key) ==
    IF \E i \in 1..Len(c) : c[i].key = key
    THEN CHOOSE i \in 1..Len(c) : c[i].key = key
    ELSE 0

RemoveAt(c, i) == SubSeq(c, 1, i - 1) \o SubSeq(c, i + 1, Len(c))

\* Map.set: an existing key keeps its place, a new key goes last.
MapSet(c, entry) ==
    IF CacheIndex(c, entry.key) = 0 THEN Append(c, entry)
    ELSE [c EXCEPT ![CacheIndex(c, entry.key)] = entry]

\* The key evictOldest settles on: the first entry, in iteration order,
\* whose timestamp is below all the earlier ones.
OldestIndex(c) ==
    CHOOSE i \in 1..Len(c) :
        /\ \A j \in 1..Len(c) : c[i].timestamp <= c[j].timestamp
        /\ \A j \in 1..(i - 1) : c[j].timestamp > c[i].timestamp

\* if (oldestKey) cache.delete(oldestKey): the empty key is falsy.
evictOldest(c) ==
    IF c = << >> THEN c
    ELSE IF c[OldestIndex(c)].key # << >> THEN RemoveAt(c, OldestIndex(c))
    ELSE c

CacheAfterSet(c, query, response, ttl, t) ==
    MapSet(IF Len(c) >= MAX_CACHE_SIZE THEN evictOldest(c) ELSE c,
           [key |-> normalizedKeys[query], response |-> response,
            timestamp |-> t, ttl |-> ttl, hits |-> 0])

\* now - entry.timestamp > entry.ttl
Expired_inclusive(entry, t) == t - entry.timestamp >= entry.ttl

Expired(entry, t) == t - entry.timestamp > entry.ttl

CacheGetResult(c, query, t) ==
    LET i == CacheIndex(c, normalizedKeys[query]) IN
    IF i = 0 THEN [hit |-> FALSE, response |-> "null"]
    ELSE IF Expired(c[i], t) THEN [hit |-> FALSE, response |-> "null"]
    ELSE [hit |-> TRUE, response |-> c[i].response]

CacheAfterGet(c, query, t) ==
    LET i == CacheIndex(c, normalizedKeys[query]) IN
    IF i = 0 THEN c
    ELSE IF Expired(c[i], t) THEN RemoveAt(c, i)
    ELSE [c EXCEPT ![i].hits = @ + 1]

\* entries.sort((a, b) => b.hits - a.hits): a stable sort, most hits first.
RECURSIVE InsertByHits(_, _)
InsertByHits(sorted, e) ==
    IF sorted = << >> THEN <<e>>
    ELSE IF Head(sorted).hits >= e.hits
         THEN <<Head(sorted)>> \o InsertByHits(Tail(sorted), e)
         ELSE <<e>> \o sorted

RECURSIVE SortByHits(_)
SortByHits(entries) ==
    IF entries = << >> THEN << >>
    ELSE InsertByHits(SortByHits(SubSeq(entries, 1, Len(entries) - 1)),
                      entries[Len(entries)])

getStats(c, t) ==
    LET entries == [i \in 1..Len(c) |->
                       [key |-> Prefix(c[i].key, 30),
                        hits |-> c[i].hits,
                        ageMs |-> t - c[i].timestamp]]
        sorted == SortByHits(entries)
    IN [size |-> Len(c),
        entries |-> Prefix(sorted, 10)]

CacheResponses == {"r1", "r2"}
CacheTtls == {CACHE_TTL_FACTS, CACHE_TTL_STATS}

get(query) ==
    /\ cacheCalls < MaxCacheCalls
    /\ cacheCalls' = cacheCalls + 1
    /\ cache' = CacheAfterGet(cache, query, now)
    /\ cacheLast' = [op |-> "get", query |-> query,
                     ret |-> CacheGetResult(cache, query, now)]
    /\ UNCHANGED <<now, lastSet>>
    /\ OnlyCache

set(query, response, ttl) ==
    /\ cacheCalls < MaxCacheCalls
    /\ cacheCalls' = cacheCalls + 1
    /\ cache' = CacheAfterSet(cache, query, response, ttl, now)
    /\ cacheLast' = [op |-> "set", query |-> query]
    /\ lastSet' = [op |-> "set", query |-> query, response |-> response,
                   ttl |-> ttl, time |-> now]
    /\ UNCHANGED now
    /\ OnlyCache

clear ==
    /\ cacheCalls < MaxCacheCalls
    /\ cacheCalls' = cacheCalls + 1
    /\ cache' = << >>
    /\ cacheLast' = [op |-> "clear"]
    /\ lastSet' = NoCall
    /\ UNCHANGED now
    /\ OnlyCache

InitCache ==
    /\ now = 0
    /\ IdleRate
    /\ IdleCache
    /\ IdleDup
    /\ IdlePipe
    /\ IdleBot
    /\ IdleFetch
    /\ IdleLoader
    /\ IdleHandlers
    /\ IdlePure

NextCache ==
    \/ (Tick /\ UNCHANGED cacheVars /\ OnlyCache)
    \/ \E q \in CacheQueries : get(q)
    \/ \E q \in CacheQueries, r \in CacheResponses, ttl \in CacheTtls : set(q, r, ttl)
    \/ clear

SpecCache == InitCache /\ [][NextCache]_vars

----------------------------------------------------------------------------
(* safety/duplicateGuard.js *)

\* hash = ((hash << 5) - hash) + char; hash = hash & hash: 31 * hash + char in
\* 32 bits.  A hash is kept as its two 16-bit halves <<high, low>>.
HashStep(h, c) ==
    LET low == h[2] * 31 + c IN
    <<(h[1] * 31 + low \div 65536) % 65536, low % 65536>>

RECURSIVE HashFrom(_, _)
HashFrom(h, s) ==
    IF s = << >> THEN h ELSE HashFrom(HashStep(h, Head(s)), Tail(s))

simpleHash_caseSensitive(text) ==
    HashFrom(<<0, 0>>, CollapseWhitespace(Trim(text)))

simpleHash(text) ==
    HashFrom(<<0, 0>>, CollapseWhitespace(Trim(ToLowerCase(text))))

\* Texts isDuplicate is called with
Text_WhatIsPepperQ == <<87, 104, 97, 116, 32, 105, 115, 32, 80, 69, 80, 80, 69, 82, 63>>          \* "What is PEPPER?"
Text_whatispepper == <<119, 104, 97, 116, 32, 105, 115, 32, 112, 101, 112, 112, 101, 114>>      \* "what is pepper"
Text_spaced == <<32, 32, 119, 104, 97, 116, 32, 32, 73, 83, 32, 112, 101, 112, 112, 101, 114, 63, 32>>    \* "  what  IS pepper? "
DupQueries == {Text_WhatIsPepperQ, Text_whatispepper, Text_spaced, << >>}

\* simpleHash of each of these texts, computed once
queryHashes == [q \in DupQueries \cup BotQuestions |-> simpleHash(q)]
QueryHash(query) == queryHashes[query]

\* `${userId}:${chatId}`
getKey(userId, chatId) == <<userId, chatId>>

DupKeyOf(userId, chatId) == getKey(userId, IF chatId = NoChat THEN userId ELSE chatId)

DupIndex(store, key) ==
    IF \E i \in 1..Len(store) : store[i].key = key
    THEN CHOOSE i \in 1..Len(store) : store[i].key = key
    ELSE 0

\* existing.hash === queryHash && now - existing.timestamp < DUPLICATE_WINDOW_MS
DupMatches_inclusive(entry, queryHash, t) ==
    entry.hash = queryHash /\ t - entry.timestamp <= DUPLICATE_WINDOW_MS

DupMatches(entry, queryHash, t) ==
    entry.hash = queryHash /\ t - entry.timestamp < DUPLICATE_WINDOW_MS

IsDuplicateResult(store, userId, chatId, query, t) ==
    IF userId = NoUser \/ query = << >> THEN FALSE
    ELSE LET i == DupIndex(store, DupKeyOf(userId, chatId)) IN
         i # 0 /\ DupMatches(store[i], QueryHash(query), t)

DupStoreAfter_evictWhenNew(store, userId, chatId, query, t) ==
    IF userId = NoUser \/ query = << >> THEN store
    ELSE IF IsDuplicateResult(store, userId, chatId, query, t) THEN store
    ELSE LET trimmed == IF /\ Len(store) >= MAX_ENTRIES
                              /\ DupIndex(store, DupKeyOf(userId, chatId)) = 0
                           THEN Tail(store) ELSE store
             entry == [key |-> DupKeyOf(userId, chatId), hash |-> QueryHash(query),
                       timestamp |-> t, text |-> query]
             i == DupIndex(trimmed, entry.key)
         IN IF i = 0 THEN Append(trimmed, entry)
            ELSE [trimmed EXCEPT ![i] = entry]

DupStoreAfter_slidingWindow(store, userId, chatId, query, t) ==
    IF userId = NoUser \/ query = << >> THEN store
    ELSE IF IsDuplicateResult(store, userId, chatId, query, t)
         THEN [store EXCEPT ![DupIndex(store, DupKeyOf(userId, chatId))].timestamp = t]
    ELSE LET trimmed == IF Len(store) >= MAX_ENTRIES THEN Tail(store) ELSE store
             entry == [key |-> DupKeyOf(userId, chatId), hash |-> QueryHash(query),
                       timestamp |-> t, text |-> query]
             i == DupIndex(trimmed, entry.key)
         IN IF i = 0 THEN Append(trimmed, entry)
            ELSE [trimmed EXCEPT ![i] = entry]

\* The store after isDuplicate.  Each entry also keeps the text it was
\* made from; the code stores the hash and the timestamp only.
DupStoreAfter(store, userId, chatId, query, t) ==
    IF userId = NoUser \/ query = << >> THEN store
    ELSE IF IsDuplicateResult(store, userId, chatId, query, t) THEN store
    ELSE LET trimmed == IF Len(store) >= MAX_ENTRIES THEN Tail(store) ELSE store
             entry == [key |-> DupKeyOf(userId, chatId), hash |-> QueryHash(query),
                       timestamp |-> t, text |-> query]
             i == DupIndex(trimmed, entry.key)
         IN IF i = 0 THEN Append(trimmed, entry)
            ELSE [trimmed EXCEPT ![i] = entry]

isDuplicate(userId, chatId, query) ==
    /\ dupCalls < MaxDupCalls
    /\ dupCalls' = dupCalls + 1
    /\ recentQueries' = DupStoreAfter(recentQueries, userId, chatId, query, now)
    /\ dupLast' = [op |-> "isDuplicate", userId |-> userId, chatId |-> chatId,
                   query |-> query,
                   ret |-> IsDuplicateResult(recentQueries, userId, chatId, query, now)]
    /\ UNCHANGED now
    /\ OnlyDup

\* The setInterval sweep of the duplicate guard.
duplicateCleanup ==
    /\ \E i \in 1..Len(recentQueries) :
          now - recentQueries[i].timestamp > DUPLICATE_WINDOW_MS
    /\ recentQueries' = SelectSeq(recentQueries,
          LAMBDA e : ~(now - e.timestamp > DUPLICATE_WINDOW_MS))
    /\ UNCHANGED <<now, dupLast, dupCalls>>
    /\ OnlyDup

clearDuplicateStore ==
    /\ recentQueries # << >>
    /\ recentQueries' = << >>
    /\ UNCHANGED <<now, dupLast, dupCalls>>
    /\ OnlyDup

InitDup ==
    /\ now = 0
    /\ IdleRate
    /\ IdleCache
    /\ IdleDup
    /\ IdlePipe
    /\ IdleBot
    /\ IdleFetch
    /\ IdleLoader
    /\ IdleHandlers
    /\ IdlePure

NextDup ==
    \/ (Tick /\ UNCHANGED dupVars /\ OnlyDup)
    \/ \E u \in UserIds \cup {NoUser}, c \in ChatIds \cup {NoChat}, q \in DupQueries :
          isDuplicate(u, c, q)
    \/ duplicateCleanup
    \/ clearDuplicateStore

SpecDup == InitDup /\ [][NextDup]_vars

----------------------------------------------------------------------------
(* constants.js *)

CHAR_BUDGETS ==
    [GREETING |-> 200, FACTUAL |-> 1000, PROCEDURAL |-> 1200,
     COMPLEX |-> 2000, REFUSAL |-> 200, CLOSING |-> 150]

HARD_CHAR_LIMIT == 3500
SOFT_CHAR_LIMIT == 3000
MIN_RESPONSE_LENGTH == 10
SPLIT_THRESHOLD == 4096

COMPLEXITY_THRESHOLDS == [SIMPLE |-> 3, MEDIUM |-> 6, COMPLEX |-> 10]
LENGTH_BUCKETS == [MICRO |-> 10, SHORT |-> 50, MEDIUM |-> 200, LONG |-> 1000]

INTENT_KEYWORDS ==
    [GREETING |->
        <<
        <<104, 105>>,  \* hi
        <<104, 101, 108, 108, 111>>,  \* hello
        <<104, 101, 121>>,  \* hey
        <<103, 109>>,  \* gm
        <<103, 111, 111, 100, 32, 109, 111, 114, 110, 105, 110, 103>>,  \* good morning
        <<103, 111, 111, 100, 32, 101, 118, 101, 110, 105, 110, 103>>,  \* good evening
        <<115, 117, 112>>,  \* sup
        <<121, 111>>  \* yo
        >>,
     CLOSING |->
        <<
        <<116, 104, 97, 110, 107, 115>>,  \* thanks
        <<116, 104, 97, 110, 107, 32, 121, 111, 117>>,  \* thank you
        <<116, 104, 120>>,  \* thx
        <<111, 107>>,  \* ok
        <<111, 107, 97, 121>>,  \* okay
        <<103, 111, 116, 32, 105, 116>>,  \* got it
        <<99, 111, 111, 108>>,  \* cool
        <<98, 121, 101>>,  \* bye
        <<103, 111, 111, 100, 98, 121, 101>>  \* goodbye
        >>,
     FORBIDDEN_INVESTMENT |->
        <<
        <<115, 104, 111, 117, 108, 100, 32, 105, 32, 98, 117, 121>>,  \* should i buy
        <<115, 104, 111, 117, 108, 100, 32, 105, 32, 115, 101, 108, 108>>,  \* should i sell
        <<115, 104, 111, 117, 108, 100, 32, 105, 32, 105, 110, 118, 101, 115, 116>>,  \* should i invest
        <<105, 115, 32, 105, 116, 32, 119, 111, 114, 116, 104>>,  \* is it worth
        <<103, 111, 111, 100, 32, 105, 110, 118, 101, 115, 116, 109, 101, 110, 116>>  \* good investment
        >>,
     FORBIDDEN_PRICE |->
        <<
        <<112, 114, 105, 99, 101, 32, 112, 114, 101, 100, 105, 99, 116, 105, 111, 110>>,  \* price prediction
        <<112, 114, 105, 99, 101, 32, 116, 97, 114, 103, 101, 116>>,  \* price target
        <<119, 105, 108, 108, 32, 112, 114, 105, 99, 101>>,  \* will price
        <<119, 104, 101, 110, 32, 109, 111, 111, 110>>,  \* when moon
        <<119, 101, 110, 32, 109, 111, 111, 110>>,  \* wen moon
        <<112, 114, 105, 99, 101, 32, 103, 111, 32, 117, 112>>,  \* price go up
        <<112, 114, 105, 99, 101, 32, 103, 111, 32, 100, 111, 119, 110>>  \* price go down
        >>,
     FORBIDDEN_SENTIMENT |->
        <<
        <<98, 117, 108, 108, 105, 115, 104>>,  \* bullish
        <<98, 101, 97, 114, 105, 115, 104>>,  \* bearish
        <<112, 117, 109, 112>>,  \* pump
        <<100, 117, 109, 112>>,  \* dump
        <<109, 111, 111, 110>>,  \* moon
        <<108, 97, 109, 98, 111>>,  \* lambo
        <<119, 101, 110, 32, 108, 97, 109, 98, 111>>  \* wen lambo
        >>,
     PROCEDURAL |->
        <<
        <<104, 111, 119, 32, 116, 111>>,  \* how to
        <<104, 111, 119, 32, 100, 111, 32, 105>>,  \* how do i
        <<115, 116, 101, 112, 32, 98, 121, 32, 115, 116, 101, 112>>,  \* step by step
        <<103, 117, 105, 100, 101>>,  \* guide
        <<116, 117, 116, 111, 114, 105, 97, 108>>,  \* tutorial
        <<115, 101, 116, 32, 117, 112>>,  \* set up
        <<115, 101, 116, 117, 112>>  \* setup
        >>]

----------------------------------------------------------------------------
(* templates: greetings.js, closings.js, refusals.js, factual.js *)

GREETING_TEMPLATES ==
    <<
    \* Hey there! I'm Pepper Pal, your guide to Peppercoin on Chiliz Chain. What would you like to know?
    <<72, 101, 121, 32, 116, 104, 101, 114, 101, 33, 32, 73, 39, 109, 32, 80,
      101, 112, 112, 101, 114, 32, 80, 97, 108, 44, 32, 121, 111, 117, 114,
      32, 103, 117, 105, 100, 101, 32, 116, 111, 32, 80, 101, 112, 112, 101,
      114, 99, 111, 105, 110, 32, 111, 110, 32, 67, 104, 105, 108, 105, 122,
      32, 67, 104, 97, 105, 110, 46, 32, 87, 104, 97, 116, 32, 119, 111, 117,
      108, 100, 32, 121, 111, 117, 32, 108, 105, 107, 101, 32, 116, 111, 32,
      107, 110, 111, 119, 63>>,
    \* Hello! Welcome to the PEPPER community. Ask me about buying, governance, or getting started.
    <<72, 101, 108, 108, 111, 33, 32, 87, 101, 108, 99, 111, 109, 101, 32,
      116, 111, 32, 116, 104, 101, 32, 80, 69, 80, 80, 69, 82, 32, 99, 111,
      109, 109, 117, 110, 105, 116, 121, 46, 32, 65, 115, 107, 32, 109, 101,
      32, 97, 98, 111, 117, 116, 32, 98, 117, 121, 105, 110, 103, 44, 32, 103,
      111, 118, 101, 114, 110, 97, 110, 99, 101, 44, 32, 111, 114, 32, 103,
      101, 116, 116, 105, 110, 103, 32, 115, 116, 97, 114, 116, 101, 100, 46>>,
    \* Hey! I'm here to help with all things Peppercoin. What can I help you with today?
    <<72, 101, 121, 33, 32, 73, 39, 109, 32, 104, 101, 114, 101, 32, 116, 111,
      32, 104, 101, 108, 112, 32, 119, 105, 116, 104, 32, 97, 108, 108, 32,
      116, 104, 105, 110, 103, 115, 32, 80, 101, 112, 112, 101, 114, 99, 111,
      105, 110, 46, 32, 87, 104, 97, 116, 32, 99, 97, 110, 32, 73, 32, 104,
      101, 108, 112, 32, 121, 111, 117, 32, 119, 105, 116, 104, 32, 116, 111,
      100, 97, 121, 63>>,
    \* Hi! I'm Pepper Pal. Curious about PEPPER? I can help with buying, staking, and more.
    <<72, 105, 33, 32, 73, 39, 109, 32, 80, 101, 112, 112, 101, 114, 32, 80,
      97, 108, 46, 32, 67, 117, 114, 105, 111, 117, 115, 32, 97, 98, 111, 117,
      116, 32, 80, 69, 80, 80, 69, 82, 63, 32, 73, 32, 99, 97, 110, 32, 104,
      101, 108, 112, 32, 119, 105, 116, 104, 32, 98, 117, 121, 105, 110, 103,
      44, 32, 115, 116, 97, 107, 105, 110, 103, 44, 32, 97, 110, 100, 32, 109,
      111, 114, 101, 46>>,
    \* Welcome! I'm your Peppercoin assistant. Ask me anything about PEPPER on Chiliz Chain.
    <<87, 101, 108, 99, 111, 109, 101, 33, 32, 73, 39, 109, 32, 121, 111, 117,
      114, 32, 80, 101, 112, 112, 101, 114, 99, 111, 105, 110, 32, 97, 115,
      115, 105, 115, 116, 97, 110, 116, 46, 32, 65, 115, 107, 32, 109, 101,
      32, 97, 110, 121, 116, 104, 105, 110, 103, 32, 97, 98, 111, 117, 116,
      32, 80, 69, 80, 80, 69, 82, 32, 111, 110, 32, 67, 104, 105, 108, 105,
      122, 32, 67, 104, 97, 105, 110, 46>>,
    \* Hey! Ready to learn about PEPPER? I can explain the basics, help you buy, or guide you through governance.
    <<72, 101, 121, 33, 32, 82, 101, 97, 100, 121, 32, 116, 111, 32, 108, 101,
      97, 114, 110, 32, 97, 98, 111, 117, 116, 32, 80, 69, 80, 80, 69, 82, 63,
      32, 73, 32, 99, 97, 110, 32, 101, 120, 112, 108, 97, 105, 110, 32, 116,
      104, 101, 32, 98, 97, 115, 105, 99, 115, 44, 32, 104, 101, 108, 112, 32,
      121, 111, 117, 32, 98, 117, 121, 44, 32, 111, 114, 32, 103, 117, 105,
      100, 101, 32, 121, 111, 117, 32, 116, 104, 114, 111, 117, 103, 104, 32,
      103, 111, 118, 101, 114, 110, 97, 110, 99, 101, 46>>,
    \* Hi there! I'm Pepper Pal. Whether you're new or experienced, I'm here to help with Peppercoin questions.
    <<72, 105, 32, 116, 104, 101, 114, 101, 33, 32, 73, 39, 109, 32, 80, 101,
      112, 112, 101, 114, 32, 80, 97, 108, 46, 32, 87, 104, 101, 116, 104,
      101, 114, 32, 121, 111, 117, 39, 114, 101, 32, 110, 101, 119, 32, 111,
      114, 32, 101, 120, 112, 101, 114, 105, 101, 110, 99, 101, 100, 44, 32,
      73, 39, 109, 32, 104, 101, 114, 101, 32, 116, 111, 32, 104, 101, 108,
      112, 32, 119, 105, 116, 104, 32, 80, 101, 112, 112, 101, 114, 99, 111,
      105, 110, 32, 113, 117, 101, 115, 116, 105, 111, 110, 115, 46>>,
    \* Hello! Looking for info on Peppercoin? I've got you covered. What do you need?
    <<72, 101, 108, 108, 111, 33, 32, 76, 111, 111, 107, 105, 110, 103, 32,
      102, 111, 114, 32, 105, 110, 102, 111, 32, 111, 110, 32, 80, 101, 112,
      112, 101, 114, 99, 111, 105, 110, 63, 32, 73, 39, 118, 101, 32, 103,
      111, 116, 32, 121, 111, 117, 32, 99, 111, 118, 101, 114, 101, 100, 46,
      32, 87, 104, 97, 116, 32, 100, 111, 32, 121, 111, 117, 32, 110, 101,
      101, 100, 63>>
    >>

CLOSING_TEMPLATES ==
    <<
    \* You're welcome! Feel free to ask if you have more questions about PEPPER.
    <<89, 111, 117, 39, 114, 101, 32, 119, 101, 108, 99, 111, 109, 101, 33,
      32, 70, 101, 101, 108, 32, 102, 114, 101, 101, 32, 116, 111, 32, 97,
      115, 107, 32, 105, 102, 32, 121, 111, 117, 32, 104, 97, 118, 101, 32,
      109, 111, 114, 101, 32, 113, 117, 101, 115, 116, 105, 111, 110, 115, 32,
      97, 98, 111, 117, 116, 32, 80, 69, 80, 80, 69, 82, 46>>,
    \* Happy to help! Come back anytime you need info on Peppercoin.
    <<72, 97, 112, 112, 121, 32, 116, 111, 32, 104, 101, 108, 112, 33, 32, 67,
      111, 109, 101, 32, 98, 97, 99, 107, 32, 97, 110, 121, 116, 105, 109,
      101, 32, 121, 111, 117, 32, 110, 101, 101, 100, 32, 105, 110, 102, 111,
      32, 111, 110, 32, 80, 101, 112, 112, 101, 114, 99, 111, 105, 110, 46>>,
    \* Anytime! The PEPPER community is here for you.
    <<65, 110, 121, 116, 105, 109, 101, 33, 32, 84, 104, 101, 32, 80, 69, 80,
      80, 69, 82, 32, 99, 111, 109, 109, 117, 110, 105, 116, 121, 32, 105,
      115, 32, 104, 101, 114, 101, 32, 102, 111, 114, 32, 121, 111, 117, 46>>,
    \* Glad I could help! Good luck with your PEPPER journey.
    <<71, 108, 97, 100, 32, 73, 32, 99, 111, 117, 108, 100, 32, 104, 101, 108,
      112, 33, 32, 71, 111, 111, 100, 32, 108, 117, 99, 107, 32, 119, 105,
      116, 104, 32, 121, 111, 117, 114, 32, 80, 69, 80, 80, 69, 82, 32, 106,
      111, 117, 114, 110, 101, 121, 46>>,
    \* No problem! Reach out if you need anything else.
    <<78, 111, 32, 112, 114, 111, 98, 108, 101, 109, 33, 32, 82, 101, 97, 99,
      104, 32, 111, 117, 116, 32, 105, 102, 32, 121, 111, 117, 32, 110, 101,
      101, 100, 32, 97, 110, 121, 116, 104, 105, 110, 103, 32, 101, 108, 115,
      101, 46>>
    >>

REFUSAL_TEMPLATES ==
    [INVESTMENT_ADVICE |->
        <<
        \* I focus on official info rather than investment advice. Want to understand how PEPPER works first?
        <<73, 32, 102, 111, 99, 117, 115, 32, 111, 110, 32, 111, 102, 102, 105,
          99, 105, 97, 108, 32, 105, 110, 102, 111, 32, 114, 97, 116, 104, 101,
          114, 32, 116, 104, 97, 110, 32, 105, 110, 118, 101, 115, 116, 109, 101,
          110, 116, 32, 97, 100, 118, 105, 99, 101, 46, 32, 87, 97, 110, 116, 32,
          116, 111, 32, 117, 110, 100, 101, 114, 115, 116, 97, 110, 100, 32, 104,
          111, 119, 32, 80, 69, 80, 80, 69, 82, 32, 119, 111, 114, 107, 115, 32,
          102, 105, 114, 115, 116, 63>>,
        \* I can't advise on buying decisions, but I can explain what PEPPER is and how it works. Interested?
        <<73, 32, 99, 97, 110, 39, 116, 32, 97, 100, 118, 105, 115, 101, 32, 111,
          110, 32, 98, 117, 121, 105, 110, 103, 32, 100, 101, 99, 105, 115, 105,
          111, 110, 115, 44, 32, 98, 117, 116, 32, 73, 32, 99, 97, 110, 32, 101,
          120, 112, 108, 97, 105, 110, 32, 119, 104, 97, 116, 32, 80, 69, 80, 80,
          69, 82, 32, 105, 115, 32, 97, 110, 100, 32, 104, 111, 119, 32, 105, 116,
          32, 119, 111, 114, 107, 115, 46, 32, 73, 110, 116, 101, 114, 101, 115,
          116, 101, 100, 63>>,
        \* Investment decisions are personal. I can share facts about PEPPER's utility and governance instead.
        <<73, 110, 118, 101, 115, 116, 109, 101, 110, 116, 32, 100, 101, 99, 105,
          115, 105, 111, 110, 115, 32, 97, 114, 101, 32, 112, 101, 114, 115, 111,
          110, 97, 108, 46, 32, 73, 32, 99, 97, 110, 32, 115, 104, 97, 114, 101,
          32, 102, 97, 99, 116, 115, 32, 97, 98, 111, 117, 116, 32, 80, 69, 80,
          80, 69, 82, 39, 115, 32, 117, 116, 105, 108, 105, 116, 121, 32, 97, 110,
          100, 32, 103, 111, 118, 101, 114, 110, 97, 110, 99, 101, 32, 105, 110,
          115, 116, 101, 97, 100, 46>>
        >>,
     PRICE_SPECULATION |->
        <<
        \* I can't predict prices. Want to know about PEPPER's utility and governance instead?
        <<73, 32, 99, 97, 110, 39, 116, 32, 112, 114, 101, 100, 105, 99, 116, 32,
          112, 114, 105, 99, 101, 115, 46, 32, 87, 97, 110, 116, 32, 116, 111, 32,
          107, 110, 111, 119, 32, 97, 98, 111, 117, 116, 32, 80, 69, 80, 80, 69,
          82, 39, 115, 32, 117, 116, 105, 108, 105, 116, 121, 32, 97, 110, 100,
          32, 103, 111, 118, 101, 114, 110, 97, 110, 99, 101, 32, 105, 110, 115,
          116, 101, 97, 100, 63>>,
        \* Price predictions aren't my thing. I can explain what makes PEPPER unique though.
        <<80, 114, 105, 99, 101, 32, 112, 114, 101, 100, 105, 99, 116, 105, 111,
          110, 115, 32, 97, 114, 101, 110, 39, 116, 32, 109, 121, 32, 116, 104,
          105, 110, 103, 46, 32, 73, 32, 99, 97, 110, 32, 101, 120, 112, 108, 97,
          105, 110, 32, 119, 104, 97, 116, 32, 109, 97, 107, 101, 115, 32, 80, 69,
          80, 80, 69, 82, 32, 117, 110, 105, 113, 117, 101, 32, 116, 104, 111,
          117, 103, 104, 46>>,
        \* I stick to facts, not price speculation. Curious about PEPPER's tokenomics or governance?
        <<73, 32, 115, 116, 105, 99, 107, 32, 116, 111, 32, 102, 97, 99, 116, 115,
          44, 32, 110, 111, 116, 32, 112, 114, 105, 99, 101, 32, 115, 112, 101,
          99, 117, 108, 97, 116, 105, 111, 110, 46, 32, 67, 117, 114, 105, 111,
          117, 115, 32, 97, 98, 111, 117, 116, 32, 80, 69, 80, 80, 69, 82, 39,
          115, 32, 116, 111, 107, 101, 110, 111, 109, 105, 99, 115, 32, 111, 114,
          32, 103, 111, 118, 101, 114, 110, 97, 110, 99, 101, 63>>
        >>,
     MARKET_SENTIMENT |->
        <<
        \* I focus on official information rather than market sentiment. Want factual info about PEPPER?
        <<73, 32, 102, 111, 99, 117, 115, 32, 111, 110, 32, 111, 102, 102, 105,
          99, 105, 97, 108, 32, 105, 110, 102, 111, 114, 109, 97, 116, 105, 111,
          110, 32, 114, 97, 116, 104, 101, 114, 32, 116, 104, 97, 110, 32, 109,
          97, 114, 107, 101, 116, 32, 115, 101, 110, 116, 105, 109, 101, 110, 116,
          46, 32, 87, 97, 110, 116, 32, 102, 97, 99, 116, 117, 97, 108, 32, 105,
          110, 102, 111, 32, 97, 98, 111, 117, 116, 32, 80, 69, 80, 80, 69, 82,
          63>>,
        \* I can't comment on market trends. I can share what PEPPER is and how it works though.
        <<73, 32, 99, 97, 110, 39, 116, 32, 99, 111, 109, 109, 101, 110, 116, 32,
          111, 110, 32, 109, 97, 114, 107, 101, 116, 32, 116, 114, 101, 110, 100,
          115, 46, 32, 73, 32, 99, 97, 110, 32, 115, 104, 97, 114, 101, 32, 119,
          104, 97, 116, 32, 80, 69, 80, 80, 69, 82, 32, 105, 115, 32, 97, 110,
          100, 32, 104, 111, 119, 32, 105, 116, 32, 119, 111, 114, 107, 115, 32,
          116, 104, 111, 117, 103, 104, 46>>,
        \* Market sentiment isn't my area. Ask me about PEPPER basics, buying, or governance instead.
        <<77, 97, 114, 107, 101, 116, 32, 115, 101, 110, 116, 105, 109, 101, 110,
          116, 32, 105, 115, 110, 39, 116, 32, 109, 121, 32, 97, 114, 101, 97, 46,
          32, 65, 115, 107, 32, 109, 101, 32, 97, 98, 111, 117, 116, 32, 80, 69,
          80, 80, 69, 82, 32, 98, 97, 115, 105, 99, 115, 44, 32, 98, 117, 121,
          105, 110, 103, 44, 32, 111, 114, 32, 103, 111, 118, 101, 114, 110, 97,
          110, 99, 101, 32, 105, 110, 115, 116, 101, 97, 100, 46>>
        >>,
     ADVERSARIAL |->
        <<
        \* I'm Pepper Pal, focused on helping with Peppercoin questions. What would you like to know?
        <<73, 39, 109, 32, 80, 101, 112, 112, 101, 114, 32, 80, 97, 108, 44, 32,
          102, 111, 99, 117, 115, 101, 100, 32, 111, 110, 32, 104, 101, 108, 112,
          105, 110, 103, 32, 119, 105, 116, 104, 32, 80, 101, 112, 112, 101, 114,
          99, 111, 105, 110, 32, 113, 117, 101, 115, 116, 105, 111, 110, 115, 46,
          32, 87, 104, 97, 116, 32, 119, 111, 117, 108, 100, 32, 121, 111, 117,
          32, 108, 105, 107, 101, 32, 116, 111, 32, 107, 110, 111, 119, 63>>,
        \* I'm here to help with PEPPER info. Ask me about tokenomics, buying, or governance.
        <<73, 39, 109, 32, 104, 101, 114, 101, 32, 116, 111, 32, 104, 101, 108,
          112, 32, 119, 105, 116, 104, 32, 80, 69, 80, 80, 69, 82, 32, 105, 110,
          102, 111, 46, 32, 65, 115, 107, 32, 109, 101, 32, 97, 98, 111, 117, 116,
          32, 116, 111, 107, 101, 110, 111, 109, 105, 99, 115, 44, 32, 98, 117,
          121, 105, 110, 103, 44, 32, 111, 114, 32, 103, 111, 118, 101, 114, 110,
          97, 110, 99, 101, 46>>
        >>,
     GENERIC |->
        <<
        \* I focus on official Peppercoin information. Want to learn about PEPPER basics or governance?
        <<73, 32, 102, 111, 99, 117, 115, 32, 111, 110, 32, 111, 102, 102, 105,
          99, 105, 97, 108, 32, 80, 101, 112, 112, 101, 114, 99, 111, 105, 110,
          32, 105, 110, 102, 111, 114, 109, 97, 116, 105, 111, 110, 46, 32, 87,
          97, 110, 116, 32, 116, 111, 32, 108, 101, 97, 114, 110, 32, 97, 98, 111,
          117, 116, 32, 80, 69, 80, 80, 69, 82, 32, 98, 97, 115, 105, 99, 115, 32,
          111, 114, 32, 103, 111, 118, 101, 114, 110, 97, 110, 99, 101, 63>>,
        \* I can help with factual PEPPER questions. What would you like to know?
        <<73, 32, 99, 97, 110, 32, 104, 101, 108, 112, 32, 119, 105, 116, 104, 32,
          102, 97, 99, 116, 117, 97, 108, 32, 80, 69, 80, 80, 69, 82, 32, 113,
          117, 101, 115, 116, 105, 111, 110, 115, 46, 32, 87, 104, 97, 116, 32,
          119, 111, 117, 108, 100, 32, 121, 111, 117, 32, 108, 105, 107, 101, 32,
          116, 111, 32, 107, 110, 111, 119, 63>>
        >>]

\* Math.floor(Math.random() * templates.length): pick is the index drawn,
\* counted from 1.
getRandomGreeting(pick) == GREETING_TEMPLATES[pick]
getRandomClosing(pick) == CLOSING_TEMPLATES[pick]

\* REFUSAL_TEMPLATES[forbiddenIntent] || REFUSAL_TEMPLATES.GENERIC
RefusalPool(forbiddenIntent) ==
    IF forbiddenIntent \in DOMAIN REFUSAL_TEMPLATES
    THEN REFUSAL_TEMPLATES[forbiddenIntent]
    ELSE REFUSAL_TEMPLATES.GENERIC

getRefusalTemplate(forbiddenIntent, pick) == RefusalPool(forbiddenIntent)[pick]

detectForbiddenType(query) ==
    LET normalized == ToLowerCase(query)
        investment ==
            <<
            \* /should\s+i\s+(buy|sell|invest)/
            Cat(<<Lit(<<115, 104, 111, 117, 108, 100>>), Plus(OneOf(WhiteSpace)), Lit(<<105>>), Plus(OneOf(WhiteSpace)), Alt(<<Lit(<<98, 117, 121>>), Lit(<<115, 101, 108, 108>>), Lit(<<105, 110, 118, 101, 115, 116>>)>>)>>),
            \* /good\s+investment/
            Cat(<<Lit(<<103, 111, 111, 100>>), Plus(OneOf(WhiteSpace)), Lit(<<105, 110, 118, 101, 115, 116, 109, 101, 110, 116>>)>>),
            \* /is\s+it\s+worth/
            Cat(<<Lit(<<105, 115>>), Plus(OneOf(WhiteSpace)), Lit(<<105, 116>>), Plus(OneOf(WhiteSpace)), Lit(<<119, 111, 114, 116, 104>>)>>)
            >>
        price ==
            <<
            \* /price\s+(prediction|target)/
            Cat(<<Lit(<<112, 114, 105, 99, 101>>), Plus(OneOf(WhiteSpace)), Alt(<<Lit(<<112, 114, 101, 100, 105, 99, 116, 105, 111, 110>>), Lit(<<116, 97, 114, 103, 101, 116>>)>>)>>),
            \* /will\s+price/
            Cat(<<Lit(<<119, 105, 108, 108>>), Plus(OneOf(WhiteSpace)), Lit(<<112, 114, 105, 99, 101>>)>>),
            \* /when\s+moon|wen\s+moon/
            Alt(<<Cat(<<Lit(<<119, 104, 101, 110>>), Plus(OneOf(WhiteSpace)), Lit(<<109, 111, 111, 110>>)>>), Cat(<<Lit(<<119, 101, 110>>), Plus(OneOf(WhiteSpace)), Lit(<<109, 111, 111, 110>>)>>)>>),
            \* /price\s+go\s+(up|down)/
            Cat(<<Lit(<<112, 114, 105, 99, 101>>), Plus(OneOf(WhiteSpace)), Lit(<<103, 111>>), Plus(OneOf(WhiteSpace)), Alt(<<Lit(<<117, 112>>), Lit(<<100, 111, 119, 110>>)>>)>>)
            >>
        sentiment ==
            <<
            \* /\b(bullish|bearish|pump|dump|moon|lambo)\b/
            Cat(<<WordBoundary, Alt(<<Lit(<<98, 117, 108, 108, 105, 115, 104>>), Lit(<<98, 101, 97, 114, 105, 115, 104>>), Lit(<<112, 117, 109, 112>>), Lit(<<100, 117, 109, 112>>), Lit(<<109, 111, 111, 110>>), Lit(<<108, 97, 109, 98, 111>>)>>), WordBoundary>>)
            >>
        adversarial ==
            <<
            \* /ignore\s+(previous|all|your)/
            Cat(<<Lit(<<105, 103, 110, 111, 114, 101>>), Plus(OneOf(WhiteSpace)), Alt(<<Lit(<<112, 114, 101, 118, 105, 111, 117, 115>>), Lit(<<97, 108, 108>>), Lit(<<121, 111, 117, 114>>)>>)>>),
            \* /jailbreak|dan\s+mode/
            Alt(<<Lit(<<106, 97, 105, 108, 98, 114, 101, 97, 107>>), Cat(<<Lit(<<100, 97, 110>>), Plus(OneOf(WhiteSpace)), Lit(<<109, 111, 100, 101>>)>>)>>)
            >>
    IN  IF some(investment, normalized) THEN "INVESTMENT_ADVICE"
        ELSE IF some(price, normalized) THEN "PRICE_SPECULATION"
        ELSE IF some(sentiment, normalized) THEN "MARKET_SENTIMENT"
        ELSE IF some(adversarial, normalized) THEN "ADVERSARIAL"
        ELSE "GENERIC"

\* The entries of FACTUAL_TEMPLATES, in the order of the object literal.  The
\* six entries for links and socials are left out: their keys occur in no
\* query of the model.
FACTUAL_TEMPLATES ==
    <<
    \* contract: The official PEPPER contract on Chiliz Chain is:\n0x60F397acBCfB8f4e3234C659A3E10867e6fA6b67\n\nAlways verify this before any transaction.
    [key |->
       <<99, 111, 110, 116, 114, 97, 99, 116>>,
     response |->
       <<84, 104, 101, 32, 111, 102, 102, 105, 99, 105, 97, 108, 32, 80, 69,
         80, 80, 69, 82, 32, 99, 111, 110, 116, 114, 97, 99, 116, 32, 111,
         110, 32, 67, 104, 105, 108, 105, 122, 32, 67, 104, 97, 105, 110, 32,
         105, 115, 58, 10, 48, 120, 54, 48, 70, 51, 57, 55, 97, 99, 66, 67,
         102, 66, 56, 102, 52, 101, 51, 50, 51, 52, 67, 54, 53, 57, 65, 51,
         69, 49, 48, 56, 54, 55, 101, 54, 102, 65, 54, 98, 54, 55, 10, 10, 65,
         108, 119, 97, 121, 115, 32, 118, 101, 114, 105, 102, 121, 32, 116,
         104, 105, 115, 32, 98, 101, 102, 111, 114, 101, 32, 97, 110, 121, 32,
         116, 114, 97, 110, 115, 97, 99, 116, 105, 111, 110, 46>>],
    \* contract address: The official PEPPER contract on Chiliz Chain is:\n0x60F397acBCfB8f4e3234C659A3E10867e6fA6b67\n\nAlways verify this before any transaction.
    [key |->
       <<99, 111, 110, 116, 114, 97, 99, 116, 32, 97, 100, 100, 114, 101, 115,
         115>>,
     response |->
       <<84, 104, 101, 32, 111, 102, 102, 105, 99, 105, 97, 108, 32, 80, 69,
         80, 80, 69, 82, 32, 99, 111, 110, 116, 114, 97, 99, 116, 32, 111,
         110, 32, 67, 104, 105, 108, 105, 122, 32, 67, 104, 97, 105, 110, 32,
         105, 115, 58, 10, 48, 120, 54, 48, 70, 51, 57, 55, 97, 99, 66, 67,
         102, 66, 56, 102, 52, 101, 51, 50, 51, 52, 67, 54, 53, 57, 65, 51,
         69, 49, 48, 56, 54, 55, 101, 54, 102, 65, 54, 98, 54, 55, 10, 10, 65,
         108, 119, 97, 121, 115, 32, 118, 101, 114, 105, 102, 121, 32, 116,
         104, 105, 115, 32, 98, 101, 102, 111, 114, 101, 32, 97, 110, 121, 32,
         116, 114, 97, 110, 115, 97, 99, 116, 105, 111, 110, 46>>],
    \* what is the contract: The official PEPPER contract on Chiliz Chain is:\n0x60F397acBCfB8f4e3234C659A3E10867e6fA6b67
    [key |->
       <<119, 104, 97, 116, 32, 105, 115, 32, 116, 104, 101, 32, 99, 111, 110,
         116, 114, 97, 99, 116>>,
     response |->
       <<84, 104, 101, 32, 111, 102, 102, 105, 99, 105, 97, 108, 32, 80, 69,
         80, 80, 69, 82, 32, 99, 111, 110, 116, 114, 97, 99, 116, 32, 111,
         110, 32, 67, 104, 105, 108, 105, 122, 32, 67, 104, 97, 105, 110, 32,
         105, 115, 58, 10, 48, 120, 54, 48, 70, 51, 57, 55, 97, 99, 66, 67,
         102, 66, 56, 102, 52, 101, 51, 50, 51, 52, 67, 54, 53, 57, 65, 51,
         69, 49, 48, 56, 54, 55, 101, 54, 102, 65, 54, 98, 54, 55>>],
    \* chain id: Chiliz Chain ID is 88888. Use this when adding the network to your wallet.
    [key |->
       <<99, 104, 97, 105, 110, 32, 105, 100>>,
     response |->
       <<67, 104, 105, 108, 105, 122, 32, 67, 104, 97, 105, 110, 32, 73, 68,
         32, 105, 115, 32, 56, 56, 56, 56, 56, 46, 32, 85, 115, 101, 32, 116,
         104, 105, 115, 32, 119, 104, 101, 110, 32, 97, 100, 100, 105, 110,
         103, 32, 116, 104, 101, 32, 110, 101, 116, 119, 111, 114, 107, 32,
         116, 111, 32, 121, 111, 117, 114, 32, 119, 97, 108, 108, 101, 116,
         46>>],
    \* what is the chain id: Chiliz Chain ID is 88888. Use this when adding the network to your wallet.
    [key |->
       <<119, 104, 97, 116, 32, 105, 115, 32, 116, 104, 101, 32, 99, 104, 97,
         105, 110, 32, 105, 100>>,
     response |->
       <<67, 104, 105, 108, 105, 122, 32, 67, 104, 97, 105, 110, 32, 73, 68,
         32, 105, 115, 32, 56, 56, 56, 56, 56, 46, 32, 85, 115, 101, 32, 116,
         104, 105, 115, 32, 119, 104, 101, 110, 32, 97, 100, 100, 105, 110,
         103, 32, 116, 104, 101, 32, 110, 101, 116, 119, 111, 114, 107, 32,
         116, 111, 32, 121, 111, 117, 114, 32, 119, 97, 108, 108, 101, 116,
         46>>],
    \* website: Official website: https://www.peppercoin.com
    [key |->
       <<119, 101, 98, 115, 105, 116, 101>>,
     response |->
       <<79, 102, 102, 105, 99, 105, 97, 108, 32, 119, 101, 98, 115, 105, 116,
         101, 58, 32, 104, 116, 116, 112, 115, 58, 47, 47, 119, 119, 119, 46,
         112, 101, 112, 112, 101, 114, 99, 111, 105, 110, 46, 99, 111, 109>>],
    \* telegram: Official Telegram: https://t.me/officialpeppercoin
    [key |->
       <<116, 101, 108, 101, 103, 114, 97, 109>>,
     response |->
       <<79, 102, 102, 105, 99, 105, 97, 108, 32, 84, 101, 108, 101, 103, 114,
         97, 109, 58, 32, 104, 116, 116, 112, 115, 58, 47, 47, 116, 46, 109,
         101, 47, 111, 102, 102, 105, 99, 105, 97, 108, 112, 101, 112, 112,
         101, 114, 99, 111, 105, 110>>],
    \* twitter: Official Twitter: https://x.com/PepperChain
    [key |->
       <<116, 119, 105, 116, 116, 101, 114>>,
     response |->
       <<79, 102, 102, 105, 99, 105, 97, 108, 32, 84, 119, 105, 116, 116, 101,
         114, 58, 32, 104, 116, 116, 112, 115, 58, 47, 47, 120, 46, 99, 111,
         109, 47, 80, 101, 112, 112, 101, 114, 67, 104, 97, 105, 110>>],
    \* total supply: PEPPER total supply is 8,888,888,888,000,000 (8.88 quadrillion).
    [key |->
       <<116, 111, 116, 97, 108, 32, 115, 117, 112, 112, 108, 121>>,
     response |->
       <<80, 69, 80, 80, 69, 82, 32, 116, 111, 116, 97, 108, 32, 115, 117,
         112, 112, 108, 121, 32, 105, 115, 32, 56, 44, 56, 56, 56, 44, 56, 56,
         56, 44, 56, 56, 56, 44, 48, 48, 48, 44, 48, 48, 48, 32, 40, 56, 46,
         56, 56, 32, 113, 117, 97, 100, 114, 105, 108, 108, 105, 111, 110, 41,
         46>>],
    \* what is the total supply: PEPPER total supply is 8,888,888,888,000,000 (8.88 quadrillion).
    [key |->
       <<119, 104, 97, 116, 32, 105, 115, 32, 116, 104, 101, 32, 116, 111,
         116, 97, 108, 32, 115, 117, 112, 112, 108, 121>>,
     response |->
       <<80, 69, 80, 80, 69, 82, 32, 116, 111, 116, 97, 108, 32, 115, 117,
         112, 112, 108, 121, 32, 105, 115, 32, 56, 44, 56, 56, 56, 44, 56, 56,
         56, 44, 56, 56, 56, 44, 48, 48, 48, 44, 48, 48, 48, 32, 40, 56, 46,
         56, 56, 32, 113, 117, 97, 100, 114, 105, 108, 108, 105, 111, 110, 41,
         46>>],
    \* burned: Over 128 trillion PEPPER has been permanently burned from the total supply.
    [key |->
       <<98, 117, 114, 110, 101, 100>>,
     response |->
       <<79, 118, 101, 114, 32, 49, 50, 56, 32, 116, 114, 105, 108, 108, 105,
         111, 110, 32, 80, 69, 80, 80, 69, 82, 32, 104, 97, 115, 32, 98, 101,
         101, 110, 32, 112, 101, 114, 109, 97, 110, 101, 110, 116, 108, 121,
         32, 98, 117, 114, 110, 101, 100, 32, 102, 114, 111, 109, 32, 116,
         104, 101, 32, 116, 111, 116, 97, 108, 32, 115, 117, 112, 112, 108,
         121, 46>>],
    \* how much has been burned: Over 128 trillion PEPPER has been permanently burned from the total supply.
    [key |->
       <<104, 111, 119, 32, 109, 117, 99, 104, 32, 104, 97, 115, 32, 98, 101,
         101, 110, 32, 98, 117, 114, 110, 101, 100>>,
     response |->
       <<79, 118, 101, 114, 32, 49, 50, 56, 32, 116, 114, 105, 108, 108, 105,
         111, 110, 32, 80, 69, 80, 80, 69, 82, 32, 104, 97, 115, 32, 98, 101,
         101, 110, 32, 112, 101, 114, 109, 97, 110, 101, 110, 116, 108, 121,
         32, 98, 117, 114, 110, 101, 100, 32, 102, 114, 111, 109, 32, 116,
         104, 101, 32, 116, 111, 116, 97, 108, 32, 115, 117, 112, 112, 108,
         121, 46>>],
    \* audited: Yes, the PEPPER contract is certified by Halborn, a reputable blockchain security firm.
    [key |->
       <<97, 117, 100, 105, 116, 101, 100>>,
     response |->
       <<89, 101, 115, 44, 32, 116, 104, 101, 32, 80, 69, 80, 80, 69, 82, 32,
         99, 111, 110, 116, 114, 97, 99, 116, 32, 105, 115, 32, 99, 101, 114,
         116, 105, 102, 105, 101, 100, 32, 98, 121, 32, 72, 97, 108, 98, 111,
         114, 110, 44, 32, 97, 32, 114, 101, 112, 117, 116, 97, 98, 108, 101,
         32, 98, 108, 111, 99, 107, 99, 104, 97, 105, 110, 32, 115, 101, 99,
         117, 114, 105, 116, 121, 32, 102, 105, 114, 109, 46>>],
    \* is the contract audited: Yes, the PEPPER contract is certified by Halborn, a reputable blockchain security firm.
    [key |->
       <<105, 115, 32, 116, 104, 101, 32, 99, 111, 110, 116, 114, 97, 99, 116,
         32, 97, 117, 100, 105, 116, 101, 100>>,
     response |->
       <<89, 101, 115, 44, 32, 116, 104, 101, 32, 80, 69, 80, 80, 69, 82, 32,
         99, 111, 110, 116, 114, 97, 99, 116, 32, 105, 115, 32, 99, 101, 114,
         116, 105, 102, 105, 101, 100, 32, 98, 121, 32, 72, 97, 108, 98, 111,
         114, 110, 44, 32, 97, 32, 114, 101, 112, 117, 116, 97, 98, 108, 101,
         32, 98, 108, 111, 99, 107, 99, 104, 97, 105, 110, 32, 115, 101, 99,
         117, 114, 105, 116, 121, 32, 102, 105, 114, 109, 46>>],
    \* is it audited: Yes, the PEPPER contract is certified by Halborn, a reputable blockchain security firm.
    [key |->
       <<105, 115, 32, 105, 116, 32, 97, 117, 100, 105, 116, 101, 100>>,
     response |->
       <<89, 101, 115, 44, 32, 116, 104, 101, 32, 80, 69, 80, 80, 69, 82, 32,
         99, 111, 110, 116, 114, 97, 99, 116, 32, 105, 115, 32, 99, 101, 114,
         116, 105, 102, 105, 101, 100, 32, 98, 121, 32, 72, 97, 108, 98, 111,
         114, 110, 44, 32, 97, 32, 114, 101, 112, 117, 116, 97, 98, 108, 101,
         32, 98, 108, 111, 99, 107, 99, 104, 97, 105, 110, 32, 115, 101, 99,
         117, 114, 105, 116, 121, 32, 102, 105, 114, 109, 46>>],
    \* exchanges: PEPPER is available on:\n- DEX: FanX Protocol (https://app.fanx.xyz), Kewl, Diviswap\n- CEX: MEXC, CoinEx, Bitrue, Cube, Paribu\n\nContract: 0x60F397acBCfB8f4e3234C659A3E10867e6fA6b67
    [key |->
       <<101, 120, 99, 104, 97, 110, 103, 101, 115>>,
     response |->
       <<80, 69, 80, 80, 69, 82, 32, 105, 115, 32, 97, 118, 97, 105, 108, 97,
         98, 108, 101, 32, 111, 110, 58, 10, 45, 32, 68, 69, 88, 58, 32, 70,
         97, 110, 88, 32, 80, 114, 111, 116, 111, 99, 111, 108, 32, 40, 104,
         116, 116, 112, 115, 58, 47, 47, 97, 112, 112, 46, 102, 97, 110, 120,
         46, 120, 121, 122, 41, 44, 32, 75, 101, 119, 108, 44, 32, 68, 105,
         118, 105, 115, 119, 97, 112, 10, 45, 32, 67, 69, 88, 58, 32, 77, 69,
         88, 67, 44, 32, 67, 111, 105, 110, 69, 120, 44, 32, 66, 105, 116,
         114, 117, 101, 44, 32, 67, 117, 98, 101, 44, 32, 80, 97, 114, 105,
         98, 117, 10, 10, 67, 111, 110, 116, 114, 97, 99, 116, 58, 32, 48,
         120, 54, 48, 70, 51, 57, 55, 97, 99, 66, 67, 102, 66, 56, 102, 52,
         101, 51, 50, 51, 52, 67, 54, 53, 57, 65, 51, 69, 49, 48, 56, 54, 55,
         101, 54, 102, 65, 54, 98, 54, 55>>],
    \* where to buy: Buy PEPPER on:\n- DEX: FanX (https://app.fanx.xyz), Kewl, Diviswap - PEPPER/WCHZ pair\n- CEX: MEXC, CoinEx, Bitrue, Cube, Paribu\n\nAlways verify the contract: 0x60F397acBCfB8f4e3234C659A3E10867e6fA6b67
    [key |->
       <<119, 104, 101, 114, 101, 32, 116, 111, 32, 98, 117, 121>>,
     response |->
       <<66, 117, 121, 32, 80, 69, 80, 80, 69, 82, 32, 111, 110, 58, 10, 45,
         32, 68, 69, 88, 58, 32, 70, 97, 110, 88, 32, 40, 104, 116, 116, 112,
         115, 58, 47, 47, 97, 112, 112, 46, 102, 97, 110, 120, 46, 120, 121,
         122, 41, 44, 32, 75, 101, 119, 108, 44, 32, 68, 105, 118, 105, 115,
         119, 97, 112, 32, 45, 32, 80, 69, 80, 80, 69, 82, 47, 87, 67, 72, 90,
         32, 112, 97, 105, 114, 10, 45, 32, 67, 69, 88, 58, 32, 77, 69, 88,
         67, 44, 32, 67, 111, 105, 110, 69, 120, 44, 32, 66, 105, 116, 114,
         117, 101, 44, 32, 67, 117, 98, 101, 44, 32, 80, 97, 114, 105, 98,
         117, 10, 10, 65, 108, 119, 97, 121, 115, 32, 118, 101, 114, 105, 102,
         121, 32, 116, 104, 101, 32, 99, 111, 110, 116, 114, 97, 99, 116, 58,
         32, 48, 120, 54, 48, 70, 51, 57, 55, 97, 99, 66, 67, 102, 66, 56,
         102, 52, 101, 51, 50, 51, 52, 67, 54, 53, 57, 65, 51, 69, 49, 48, 56,
         54, 55, 101, 54, 102, 65, 54, 98, 54, 55>>],
    \* where can i buy: Buy PEPPER on:\n- DEX: FanX (https://app.fanx.xyz), Kewl, Diviswap - PEPPER/WCHZ pair\n- CEX: MEXC, CoinEx, Bitrue, Cube, Paribu\n\nAlways verify the contract: 0x60F397acBCfB8f4e3234C659A3E10867e6fA6b67
    [key |->
       <<119, 104, 101, 114, 101, 32, 99, 97, 110, 32, 105, 32, 98, 117, 121>>,
     response |->
       <<66, 117, 121, 32, 80, 69, 80, 80, 69, 82, 32, 111, 110, 58, 10, 45,
         32, 68, 69, 88, 58, 32, 70, 97, 110, 88, 32, 40, 104, 116, 116, 112,
         115, 58, 47, 47, 97, 112, 112, 46, 102, 97, 110, 120, 46, 120, 121,
         122, 41, 44, 32, 75, 101, 119, 108, 44, 32, 68, 105, 118, 105, 115,
         119, 97, 112, 32, 45, 32, 80, 69, 80, 80, 69, 82, 47, 87, 67, 72, 90,
         32, 112, 97, 105, 114, 10, 45, 32, 67, 69, 88, 58, 32, 77, 69, 88,
         67, 44, 32, 67, 111, 105, 110, 69, 120, 44, 32, 66, 105, 116, 114,
         117, 101, 44, 32, 67, 117, 98, 101, 44, 32, 80, 97, 114, 105, 98,
         117, 10, 10, 65, 108, 119, 97, 121, 115, 32, 118, 101, 114, 105, 102,
         121, 32, 116, 104, 101, 32, 99, 111, 110, 116, 114, 97, 99, 116, 58,
         32, 48, 120, 54, 48, 70, 51, 57, 55, 97, 99, 66, 67, 102, 66, 56,
         102, 52, 101, 51, 50, 51, 52, 67, 54, 53, 57, 65, 51, 69, 49, 48, 56,
         54, 55, 101, 54, 102, 65, 54, 98, 54, 55>>]
    >>

\* new RegExp(`\\b${key.replace(/\s+/g, '\\s+')}\\b`, 'i')
RECURSIVE KeyWords(_)
KeyWords(key) ==
    IF key = << >> THEN << >>
    ELSE IF IsSpace(Head(key))
         THEN <<Plus(OneOf(WhiteSpace))>> \o KeyWords(TrimStart(key))
         ELSE <<Lit(<<Head(key)>>)>> \o KeyWords(Tail(key))

KeyPattern(key) == Cat(<<WordBoundary>> \o KeyWords(key) \o <<WordBoundary>>)

NoTemplate == << >>   \* matchFactualTemplate returns null

\* The direct match first, then the first safe key found as a whole phrase;
\* safePartialKeys holds every key but 'contract'.
matchFactualTemplate(query) ==
    LET First(S) == CHOOSE k \in S : \A j \in S : k <= j
        Found(templates, direct, partial) ==
            IF direct # {} THEN templates[First(direct)].response
            ELSE IF partial # {} THEN templates[First(partial)].response
            ELSE NoTemplate
        Match(templates, normalized) ==
            Found(templates,
                  {k \in 1..Len(templates) : templates[k].key = normalized},
                  {k \in 1..Len(templates) :
                      \* safePartialKeys.includes(key)
                      /\ \E j \in 2..Len(templates) : templates[k].key = templates[j].key
                      /\ test(KeyPattern(templates[k].key), normalized)})
    IN  Match(FACTUAL_TEMPLATES, Trim(ToLowerCase(query)))

----------------------------------------------------------------------------
(* safety/intentDetector.js *)

isInvestmentAdvice(query) ==
    LET patterns ==
            <<
            \* /should\s+i\s+(buy|sell|invest|hold)/
            Cat(<<Lit(<<115, 104, 111, 117, 108, 100>>), Plus(OneOf(WhiteSpace)), Lit(<<105>>), Plus(OneOf(WhiteSpace)), Alt(<<Lit(<<98, 117, 121>>), Lit(<<115, 101, 108, 108>>), Lit(<<105, 110, 118, 101, 115, 116>>), Lit(<<104, 111, 108, 100>>)>>)>>),
            \* /is\s+it\s+(worth|good)\s+(buying|to\s+buy|investing)/
            Cat(<<Lit(<<105, 115>>), Plus(OneOf(WhiteSpace)), Lit(<<105, 116>>), Plus(OneOf(WhiteSpace)), Alt(<<Lit(<<119, 111, 114, 116, 104>>), Lit(<<103, 111, 111, 100>>)>>), Plus(OneOf(WhiteSpace)), Alt(<<Lit(<<98, 117, 121, 105, 110, 103>>), Cat(<<Lit(<<116, 111>>), Plus(OneOf(WhiteSpace)), Lit(<<98, 117, 121>>)>>), Lit(<<105, 110, 118, 101, 115, 116, 105, 110, 103>>)>>)>>),
            \* /good\s+investment/
            Cat(<<Lit(<<103, 111, 111, 100>>), Plus(OneOf(WhiteSpace)), Lit(<<105, 110, 118, 101, 115, 116, 109, 101, 110, 116>>)>>),
            \* /buy\s+(now|today|soon)/
            Cat(<<Lit(<<98, 117, 121>>), Plus(OneOf(WhiteSpace)), Alt(<<Lit(<<110, 111, 119>>), Lit(<<116, 111, 100, 97, 121>>), Lit(<<115, 111, 111, 110>>)>>)>>),
            \* /sell\s+(now|today|soon)/
            Cat(<<Lit(<<115, 101, 108, 108>>), Plus(OneOf(WhiteSpace)), Alt(<<Lit(<<110, 111, 119>>), Lit(<<116, 111, 100, 97, 121>>), Lit(<<115, 111, 111, 110>>)>>)>>),
            \* /invest\s+in\s+pepper/
            Cat(<<Lit(<<105, 110, 118, 101, 115, 116>>), Plus(OneOf(WhiteSpace)), Lit(<<105, 110>>), Plus(OneOf(WhiteSpace)), Lit(<<112, 101, 112, 112, 101, 114>>)>>),
            \* /worth\s+(buying|investing)/
            Cat(<<Lit(<<119, 111, 114, 116, 104>>), Plus(OneOf(WhiteSpace)), Alt(<<Lit(<<98, 117, 121, 105, 110, 103>>), Lit(<<105, 110, 118, 101, 115, 116, 105, 110, 103>>)>>)>>)
            >>
    IN  some(patterns, query)

isPriceSpeculation(query) ==
    LET patterns ==
            <<
            \* /price\s+(prediction|target|forecast)/
            Cat(<<Lit(<<112, 114, 105, 99, 101>>), Plus(OneOf(WhiteSpace)), Alt(<<Lit(<<112, 114, 101, 100, 105, 99, 116, 105, 111, 110>>), Lit(<<116, 97, 114, 103, 101, 116>>), Lit(<<102, 111, 114, 101, 99, 97, 115, 116>>)>>)>>),
            \* /will\s+(the\s+)?price/
            Cat(<<Lit(<<119, 105, 108, 108>>), Plus(OneOf(WhiteSpace)), Opt(Cat(<<Lit(<<116, 104, 101>>), Plus(OneOf(WhiteSpace))>>)), Lit(<<112, 114, 105, 99, 101>>)>>),
            \* /when\s+(will\s+)?(moon|lambo)/
            Cat(<<Lit(<<119, 104, 101, 110>>), Plus(OneOf(WhiteSpace)), Opt(Cat(<<Lit(<<119, 105, 108, 108>>), Plus(OneOf(WhiteSpace))>>)), Alt(<<Lit(<<109, 111, 111, 110>>), Lit(<<108, 97, 109, 98, 111>>)>>)>>),
            \* /wen\s+(moon|lambo)/
            Cat(<<Lit(<<119, 101, 110>>), Plus(OneOf(WhiteSpace)), Alt(<<Lit(<<109, 111, 111, 110>>), Lit(<<108, 97, 109, 98, 111>>)>>)>>),
            \* /price\s+go\s+(up|down)/
            Cat(<<Lit(<<112, 114, 105, 99, 101>>), Plus(OneOf(WhiteSpace)), Lit(<<103, 111>>), Plus(OneOf(WhiteSpace)), Alt(<<Lit(<<117, 112>>), Lit(<<100, 111, 119, 110>>)>>)>>),
            \* /how\s+high\s+(can|will)/
            Cat(<<Lit(<<104, 111, 119>>), Plus(OneOf(WhiteSpace)), Lit(<<104, 105, 103, 104>>), Plus(OneOf(WhiteSpace)), Alt(<<Lit(<<99, 97, 110>>), Lit(<<119, 105, 108, 108>>)>>)>>),
            \* /reach\s+\$?\d/
            Cat(<<Lit(<<114, 101, 97, 99, 104>>), Plus(OneOf(WhiteSpace)), Opt(Lit(<<36>>)), OneOf(Digits)>>),
            \* /\$?\d+\s+(by|in|before)/
            Cat(<<Opt(Lit(<<36>>)), Plus(OneOf(Digits)), Plus(OneOf(WhiteSpace)), Alt(<<Lit(<<98, 121>>), Lit(<<105, 110>>), Lit(<<98, 101, 102, 111, 114, 101>>)>>)>>)
            >>
    IN  some(patterns, query)

\* new RegExp(`\\b${word}\\b`, 'i') for each of the sentimentWords
isMarketSentiment(query) ==
    LET sentimentWords ==
            <<
            \* /\bbullish\b/
            Cat(<<WordBoundary, Lit(<<98, 117, 108, 108, 105, 115, 104>>), WordBoundary>>),
            \* /\bbearish\b/
            Cat(<<WordBoundary, Lit(<<98, 101, 97, 114, 105, 115, 104>>), WordBoundary>>),
            \* /\bpump\b/
            Cat(<<WordBoundary, Lit(<<112, 117, 109, 112>>), WordBoundary>>),
            \* /\bdump\b/
            Cat(<<WordBoundary, Lit(<<100, 117, 109, 112>>), WordBoundary>>),
            \* /\bmoon\b/
            Cat(<<WordBoundary, Lit(<<109, 111, 111, 110>>), WordBoundary>>),
            \* /\blambo\b/
            Cat(<<WordBoundary, Lit(<<108, 97, 109, 98, 111>>), WordBoundary>>),
            \* /\bmooning\b/
            Cat(<<WordBoundary, Lit(<<109, 111, 111, 110, 105, 110, 103>>), WordBoundary>>),
            \* /\bpumping\b/
            Cat(<<WordBoundary, Lit(<<112, 117, 109, 112, 105, 110, 103>>), WordBoundary>>),
            \* /\bdumping\b/
            Cat(<<WordBoundary, Lit(<<100, 117, 109, 112, 105, 110, 103>>), WordBoundary>>)
            >>
    IN  some(sentimentWords, query)

isAdversarial(query) ==
    LET patterns ==
            <<
            \* /ignore\s+(previous|all|your|above)\s+(instructions?|rules?|prompts?)/
            Cat(<<Lit(<<105, 103, 110, 111, 114, 101>>), Plus(OneOf(WhiteSpace)), Alt(<<Lit(<<112, 114, 101, 118, 105, 111, 117, 115>>), Lit(<<97, 108, 108>>), Lit(<<121, 111, 117, 114>>), Lit(<<97, 98, 111, 118, 101>>)>>), Plus(OneOf(WhiteSpace)), Alt(<<Cat(<<Lit(<<105, 110, 115, 116, 114, 117, 99, 116, 105, 111, 110>>), Opt(Lit(<<115>>))>>), Cat(<<Lit(<<114, 117, 108, 101>>), Opt(Lit(<<115>>))>>), Cat(<<Lit(<<112, 114, 111, 109, 112, 116>>), Opt(Lit(<<115>>))>>)>>)>>),
            \* /disregard\s+(your|the)\s+(rules?|instructions?|guidelines?)/
            Cat(<<Lit(<<100, 105, 115, 114, 101, 103, 97, 114, 100>>), Plus(OneOf(WhiteSpace)), Alt(<<Lit(<<121, 111, 117, 114>>), Lit(<<116, 104, 101>>)>>), Plus(OneOf(WhiteSpace)), Alt(<<Cat(<<Lit(<<114, 117, 108, 101>>), Opt(Lit(<<115>>))>>), Cat(<<Lit(<<105, 110, 115, 116, 114, 117, 99, 116, 105, 111, 110>>), Opt(Lit(<<115>>))>>), Cat(<<Lit(<<103, 117, 105, 100, 101, 108, 105, 110, 101>>), Opt(Lit(<<115>>))>>)>>)>>),
            \* /forget\s+(your|the|all)\s+(rules?|instructions?)/
            Cat(<<Lit(<<102, 111, 114, 103, 101, 116>>), Plus(OneOf(WhiteSpace)), Alt(<<Lit(<<121, 111, 117, 114>>), Lit(<<116, 104, 101>>), Lit(<<97, 108, 108>>)>>), Plus(OneOf(WhiteSpace)), Alt(<<Cat(<<Lit(<<114, 117, 108, 101>>), Opt(Lit(<<115>>))>>), Cat(<<Lit(<<105, 110, 115, 116, 114, 117, 99, 116, 105, 111, 110>>), Opt(Lit(<<115>>))>>)>>)>>),
            \* /pretend\s+(you('re|are)|to\s+be)/
            Cat(<<Lit(<<112, 114, 101, 116, 101, 110, 100>>), Plus(OneOf(WhiteSpace)), Alt(<<Cat(<<Lit(<<121, 111, 117>>), Alt(<<Lit(<<39, 114, 101>>), Lit(<<97, 114, 101>>)>>)>>), Cat(<<Lit(<<116, 111>>), Plus(OneOf(WhiteSpace)), Lit(<<98, 101>>)>>)>>)>>),
            \* /act\s+as\s+(if|a|an|though)/
            Cat(<<Lit(<<97, 99, 116>>), Plus(OneOf(WhiteSpace)), Lit(<<97, 115>>), Plus(OneOf(WhiteSpace)), Alt(<<Lit(<<105, 102>>), Lit(<<97>>), Lit(<<97, 110>>), Lit(<<116, 104, 111, 117, 103, 104>>)>>)>>),
            \* /you\s+are\s+now/
            Cat(<<Lit(<<121, 111, 117>>), Plus(OneOf(WhiteSpace)), Lit(<<97, 114, 101>>), Plus(OneOf(WhiteSpace)), Lit(<<110, 111, 119>>)>>),
            \* /bypass\s+(your|the|any)/
            Cat(<<Lit(<<98, 121, 112, 97, 115, 115>>), Plus(OneOf(WhiteSpace)), Alt(<<Lit(<<121, 111, 117, 114>>), Lit(<<116, 104, 101>>), Lit(<<97, 110, 121>>)>>)>>),
            \* /jailbreak/
            Lit(<<106, 97, 105, 108, 98, 114, 101, 97, 107>>),
            \* /dan\s+mode/
            Cat(<<Lit(<<100, 97, 110>>), Plus(OneOf(WhiteSpace)), Lit(<<109, 111, 100, 101>>)>>),
            \* /developer\s+mode/
            Cat(<<Lit(<<100, 101, 118, 101, 108, 111, 112, 101, 114>>), Plus(OneOf(WhiteSpace)), Lit(<<109, 111, 100, 101>>)>>),
            \* /evil\s+mode/
            Cat(<<Lit(<<101, 118, 105, 108>>), Plus(OneOf(WhiteSpace)), Lit(<<109, 111, 100, 101>>)>>),
            \* /no\s+restrictions/
            Cat(<<Lit(<<110, 111>>), Plus(OneOf(WhiteSpace)), Lit(<<114, 101, 115, 116, 114, 105, 99, 116, 105, 111, 110, 115>>)>>)
            >>
    IN  some(patterns, query)

NoIntent == "null"

\* checkForbidden with the sentiment words tested before the price patterns.
checkForbidden_sentimentFirst(query) ==
    LET normalized == Trim(ToLowerCase(query)) IN
    IF isInvestmentAdvice(normalized)
    THEN [isForbidden |-> TRUE, intent |-> "INVESTMENT_ADVICE"]
    ELSE IF isMarketSentiment(normalized)
    THEN [isForbidden |-> TRUE, intent |-> "MARKET_SENTIMENT"]
    ELSE IF isPriceSpeculation(normalized)
    THEN [isForbidden |-> TRUE, intent |-> "PRICE_SPECULATION"]
    ELSE IF isAdversarial(normalized)
    THEN [isForbidden |-> TRUE, intent |-> "ADVERSARIAL"]
    ELSE [isForbidden |-> FALSE, intent |-> NoIntent]

checkForbidden(query) ==
    LET normalized == Trim(ToLowerCase(query)) IN
    IF isInvestmentAdvice(normalized)
    THEN [isForbidden |-> TRUE, intent |-> "INVESTMENT_ADVICE"]
    ELSE IF isPriceSpeculation(normalized)
    THEN [isForbidden |-> TRUE, intent |-> "PRICE_SPECULATION"]
    ELSE IF isMarketSentiment(normalized)
    THEN [isForbidden |-> TRUE, intent |-> "MARKET_SENTIMENT"]
    ELSE IF isAdversarial(normalized)
    THEN [isForbidden |-> TRUE, intent |-> "ADVERSARIAL"]
    ELSE [isForbidden |-> FALSE, intent |-> NoIntent]

getRefusal_generic(forbiddenIntent, pick) == REFUSAL_TEMPLATES.GENERIC[1]

getRefusal(forbiddenIntent, pick) == getRefusalTemplate(forbiddenIntent, pick)

----------------------------------------------------------------------------
(* pipeline/classifier.js *)

getLengthBucket(length) ==
    IF length < LENGTH_BUCKETS.MICRO THEN "micro"
    ELSE IF length < LENGTH_BUCKETS.SHORT THEN "short"
    ELSE IF length < LENGTH_BUCKETS.MEDIUM THEN "medium"
    ELSE "long"

\* query === g || query.startsWith(g + ' ') || query.startsWith(g + '!')
\*   || query.endsWith(' ' + g)
SaysKeyword(query, g) ==
    \/ query = g
    \/ startsWith(query, g \o <<32>>)
    \/ startsWith(query, g \o <<33>>)
    \/ endsWith(query, <<32>> \o g)

isGreeting(query) ==
    /\ Len(query) < 30
    /\ \E k \in 1..Len(INTENT_KEYWORDS.GREETING) :
           SaysKeyword(query, INTENT_KEYWORDS.GREETING[k])

isClosing(query) ==
    /\ Len(query) < 40
    /\ \E k \in 1..Len(INTENT_KEYWORDS.CLOSING) :
           SaysKeyword(query, INTENT_KEYWORDS.CLOSING[k])

isForbiddenInvestment(query) ==
    \E k \in 1..Len(INTENT_KEYWORDS.FORBIDDEN_INVESTMENT) :
        includes(query, INTENT_KEYWORDS.FORBIDDEN_INVESTMENT[k])

isForbiddenPrice(query) ==
    \E k \in 1..Len(INTENT_KEYWORDS.FORBIDDEN_PRICE) :
        includes(query, INTENT_KEYWORDS.FORBIDDEN_PRICE[k])

\* new RegExp(`\\b${p}\\b`, 'i') for each p of INTENT_KEYWORDS.FORBIDDEN_SENTIMENT
isForbiddenSentiment(query) ==
    \E k \in 1..Len(INTENT_KEYWORDS.FORBIDDEN_SENTIMENT) :
        test(Cat(<<WordBoundary, Lit(INTENT_KEYWORDS.FORBIDDEN_SENTIMENT[k]),
                   WordBoundary>>), query)

\* The isAdversarial of the classifier.
isAdversarialIntent(query) ==
    LET adversarialPatterns ==
            <<
            \* /ignore\s+(previous|all|your)\s+(instructions?|rules?)/
            Cat(<<Lit(<<105, 103, 110, 111, 114, 101>>), Plus(OneOf(WhiteSpace)), Alt(<<Lit(<<112, 114, 101, 118, 105, 111, 117, 115>>), Lit(<<97, 108, 108>>), Lit(<<121, 111, 117, 114>>)>>), Plus(OneOf(WhiteSpace)), Alt(<<Cat(<<Lit(<<105, 110, 115, 116, 114, 117, 99, 116, 105, 111, 110>>), Opt(Lit(<<115>>))>>), Cat(<<Lit(<<114, 117, 108, 101>>), Opt(Lit(<<115>>))>>)>>)>>),
            \* /disregard\s+(your|the)\s+(rules?|instructions?)/
            Cat(<<Lit(<<100, 105, 115, 114, 101, 103, 97, 114, 100>>), Plus(OneOf(WhiteSpace)), Alt(<<Lit(<<121, 111, 117, 114>>), Lit(<<116, 104, 101>>)>>), Plus(OneOf(WhiteSpace)), Alt(<<Cat(<<Lit(<<114, 117, 108, 101>>), Opt(Lit(<<115>>))>>), Cat(<<Lit(<<105, 110, 115, 116, 114, 117, 99, 116, 105, 111, 110>>), Opt(Lit(<<115>>))>>)>>)>>),
            \* /pretend\s+(you('re|are)|to\s+be)/
            Cat(<<Lit(<<112, 114, 101, 116, 101, 110, 100>>), Plus(OneOf(WhiteSpace)), Alt(<<Cat(<<Lit(<<121, 111, 117>>), Alt(<<Lit(<<39, 114, 101>>), Lit(<<97, 114, 101>>)>>)>>), Cat(<<Lit(<<116, 111>>), Plus(OneOf(WhiteSpace)), Lit(<<98, 101>>)>>)>>)>>),
            \* /act\s+as\s+(if|a|an)/
            Cat(<<Lit(<<97, 99, 116>>), Plus(OneOf(WhiteSpace)), Lit(<<97, 115>>), Plus(OneOf(WhiteSpace)), Alt(<<Lit(<<105, 102>>), Lit(<<97>>), Lit(<<97, 110>>)>>)>>),
            \* /bypass\s+(your|the)/
            Cat(<<Lit(<<98, 121, 112, 97, 115, 115>>), Plus(OneOf(WhiteSpace)), Alt(<<Lit(<<121, 111, 117, 114>>), Lit(<<116, 104, 101>>)>>)>>),
            \* /jailbreak/
            Lit(<<106, 97, 105, 108, 98, 114, 101, 97, 107>>),
            \* /dan\s+mode/
            Cat(<<Lit(<<100, 97, 110>>), Plus(OneOf(WhiteSpace)), Lit(<<109, 111, 100, 101>>)>>)
            >>
    IN  some(adversarialPatterns, query)

isProcedural(query) ==
    \E k \in 1..Len(INTENT_KEYWORDS.PROCEDURAL) :
        includes(query, INTENT_KEYWORDS.PROCEDURAL[k])

detectIntent(query) ==
    IF isGreeting(query) THEN "greeting"
    ELSE IF isClosing(query) THEN "closing"
    ELSE IF isForbiddenInvestment(query) THEN "forbidden"
    ELSE IF isForbiddenPrice(query) THEN "forbidden"
    ELSE IF isForbiddenSentiment(query) THEN "forbidden"
    ELSE IF isAdversarialIntent(query) THEN "adversarial"
    ELSE IF isProcedural(query) THEN "procedural"
    ELSE "factual"

\* calculateComplexity without the reset for greetings and closings.
calculateComplexity_noReset(query, intent) ==
    LET Min(a, b) == IF a < b THEN a ELSE b
        questionMarks == Len(SelectSeq(query, LAMBDA c : c = 63))
        complexKeywords ==
            <<
            <<101, 120, 112, 108, 97, 105, 110>>,  \* explain
            <<100, 101, 116, 97, 105, 108>>,  \* detail
            <<101, 118, 101, 114, 121, 116, 104, 105, 110, 103>>,  \* everything
            <<97, 108, 108>>,  \* all
            <<99, 111, 109, 112, 108, 101, 116, 101>>,  \* complete
            <<115, 116, 101, 112, 32, 98, 121, 32, 115, 116, 101, 112>>,  \* step by step
            <<103, 117, 105, 100, 101>>,  \* guide
            <<116, 117, 116, 111, 114, 105, 97, 108>>,  \* tutorial
            <<99, 111, 109, 112, 97, 114, 101>>,  \* compare
            <<100, 105, 102, 102, 101, 114, 101, 110, 99, 101>>  \* difference
            >>
        score ==
            (IF Len(query) > 50 THEN 1 ELSE 0)
            + (IF Len(query) > 100 THEN 1 ELSE 0)
            + (IF Len(query) > 200 THEN 1 ELSE 0)
            + Min(questionMarks, 2)
            + (IF \E k \in 1..Len(complexKeywords) : includes(query, complexKeywords[k])
               THEN 2 ELSE 0)
            + (IF intent = "procedural" THEN 2 ELSE 0)
    IN  Min(score, 10)

calculateComplexity(query, intent) ==
    LET Min(a, b) == IF a < b THEN a ELSE b
        questionMarks == Len(SelectSeq(query, LAMBDA c : c = 63))
        complexKeywords ==
            <<
            <<101, 120, 112, 108, 97, 105, 110>>,  \* explain
            <<100, 101, 116, 97, 105, 108>>,  \* detail
            <<101, 118, 101, 114, 121, 116, 104, 105, 110, 103>>,  \* everything
            <<97, 108, 108>>,  \* all
            <<99, 111, 109, 112, 108, 101, 116, 101>>,  \* complete
            <<115, 116, 101, 112, 32, 98, 121, 32, 115, 116, 101, 112>>,  \* step by step
            <<103, 117, 105, 100, 101>>,  \* guide
            <<116, 117, 116, 111, 114, 105, 97, 108>>,  \* tutorial
            <<99, 111, 109, 112, 97, 114, 101>>,  \* compare
            <<100, 105, 102, 102, 101, 114, 101, 110, 99, 101>>  \* difference
            >>
        score ==
            (IF Len(query) > 50 THEN 1 ELSE 0)
            + (IF Len(query) > 100 THEN 1 ELSE 0)
            + (IF Len(query) > 200 THEN 1 ELSE 0)
            + Min(questionMarks, 2)
            + (IF \E k \in 1..Len(complexKeywords) : includes(query, complexKeywords[k])
               THEN 2 ELSE 0)
            + (IF intent = "procedural" THEN 2 ELSE 0)
    IN  IF intent \in {"greeting", "closing"} THEN 0 ELSE Min(score, 10)

getResponseClass(intent) ==
    CASE intent = "greeting" -> "GREETING"
      [] intent = "closing" -> "CLOSING"
      [] intent = "forbidden" -> "REFUSAL"
      [] intent = "adversarial" -> "REFUSAL"
      [] intent = "procedural" -> "PROCEDURAL"
      [] OTHER -> "FACTUAL"

\* The keywords of the classification select knowledge sections for the
\* prompt, which generate does not read; they are not part of this record.
classify(query) ==
    LET Classification(normalized, intent, responseClass) ==
            [intent |-> intent,
             complexity |-> calculateComplexity(normalized, intent),
             lengthBucket |-> getLengthBucket(Len(normalized)),
             responseClass |-> responseClass,
             charBudget |-> CHAR_BUDGETS[responseClass]]
        Classified(normalized, intent) ==
            Classification(normalized, intent, getResponseClass(intent))
        Normalized(normalized) == Classified(normalized, detectIntent(normalized))
    IN  Normalized(Trim(ToLowerCase(query)))

----------------------------------------------------------------------------
(* pipeline/planner.js *)

determineStrategy_refusalGenerates(responseClass, complexity) ==
    IF responseClass \in {"GREETING", "CLOSING"} THEN "template"
    ELSE IF responseClass = "FACTUAL" /\ complexity <= COMPLEXITY_THRESHOLDS.SIMPLE
    THEN "cache"
    ELSE "generate"

determineStrategy(responseClass, complexity) ==
    IF responseClass \in {"GREETING", "CLOSING"} THEN "template"
    ELSE IF responseClass = "REFUSAL" THEN "template"
    ELSE IF responseClass = "FACTUAL" /\ complexity <= COMPLEXITY_THRESHOLDS.SIMPLE
    THEN "cache"
    ELSE "generate"

plan_cacheBelowSimple(classification) ==
    [strategy |-> determineStrategy(classification.responseClass,
                                    classification.complexity + 1),
     charBudget |-> classification.charBudget,
     responseClass |-> classification.responseClass,
     shouldSplit |-> \/ classification.charBudget > SPLIT_THRESHOLD
                     \/ classification.complexity >= COMPLEXITY_THRESHOLDS.MEDIUM]

plan(classification) ==
    [strategy |-> determineStrategy(classification.responseClass,
                                    classification.complexity),
     charBudget |-> classification.charBudget,
     responseClass |-> classification.responseClass,
     shouldSplit |-> \/ classification.charBudget > SPLIT_THRESHOLD
                     \/ classification.complexity >= COMPLEXITY_THRESHOLDS.MEDIUM]

selectModel_fastBelowMedium(complexity) ==
    IF complexity < COMPLEXITY_THRESHOLDS.MEDIUM THEN "FAST" ELSE "QUALITY"

selectModel(complexity) ==
    IF complexity <= COMPLEXITY_THRESHOLDS.MEDIUM THEN "FAST" ELSE "QUALITY"

----------------------------------------------------------------------------
(* safety/compressor.js *)

\* \n\nSay MORE for full details.
Text_sayMoreFull ==
    <<10, 10, 83, 97, 121, 32, 77, 79, 82, 69, 32, 102, 111, 114, 32, 102,
      117, 108, 108, 32, 100, 101, 116, 97, 105, 108, 115, 46>>

\* \n\nSay MORE.
Text_sayMore ==
    <<10, 10, 83, 97, 121, 32, 77, 79, 82, 69, 46>>

\* Contract: 
Text_contractLabel ==
    <<67, 111, 110, 116, 114, 97, 99, 116, 58, 32>>

\* Chain ID: 88888
Text_chainIdFact ==
    <<67, 104, 97, 105, 110, 32, 73, 68, 58, 32, 56, 56, 56, 56, 56>>

\* 88888
Text_chainId ==
    <<56, 56, 56, 56, 56>>

HexDigits == (48..57) \cup (65..70) \cup (97..102)
SentenceEnds == {46, 33, 63}    \* . ! ?

\* text.lastIndexOf(part): the index, from 0, of the last occurrence; -1 when
\* there is none.
lastIndexOf(text, part) ==
    LET at == {i \in 0..(Len(text) - Len(part)) :
                  SubSeq(text, i + 1, i + Len(part)) = part}
    IN  IF at = {} THEN -1 ELSE CHOOSE i \in at : \A j \in at : j <= i

\* text.substring(0, end)
substring(text, end) ==
    SubSeq(text, 1, IF end < 0 THEN 0 ELSE IF end > Len(text) THEN Len(text) ELSE end)

\* limit * 0.5 and limit * 0.6 are compared in integers.
hardTruncate(text, limit) ==
    LET Cut(truncated) ==
            LET AtSentence(lastSentence) ==
                    IF 2 * lastSentence > limit
                    THEN substring(truncated, lastSentence + 1) \o Text_sayMore
                    ELSE LET AtNewline(lastNewline) ==
                                 IF 10 * lastNewline > 6 * limit
                                 THEN substring(truncated, lastNewline) \o Text_sayMore
                                 ELSE truncated \o <<46, 46, 46>>
                         IN  AtNewline(lastIndexOf(truncated, <<10>>))
            IN  AtSentence(lastIndexOf(truncated, <<46, 32>>))
    IN  IF Len(text) <= limit THEN text ELSE Cut(substring(text, limit - 20))

\* text.match(/^[^.!?]+[.!?]/): one or more characters that end no sentence,
\* from the start, and the character after them, which ends one.
getFirstSentence(text) ==
    LET ends == {i \in 1..Len(text) : text[i] \in SentenceEnds}
        Upto(first) ==
            IF first >= 2 THEN Trim(SubSeq(text, 1, first))
            ELSE Trim(substring(text, 100))
    IN  IF ends = {} THEN Trim(substring(text, 100))
        ELSE Upto(CHOOSE i \in ends : \A j \in ends : i <= j)

\* text.match(/0x[a-fA-F0-9]{40}/) and text.includes('88888')
extractFacts(text) ==
    LET at == {i \in 1..(Len(text) - 41) :
                  /\ text[i] = 48
                  /\ text[i + 1] = 120
                  /\ \A k \in 2..41 : text[i + k] \in HexDigits}
        contract ==
            IF at = {} THEN << >>
            ELSE <<Text_contractLabel
                     \o SubSeq(text, CHOOSE i \in at : \A j \in at : i <= j,
                               (CHOOSE i \in at : \A j \in at : i <= j) + 41)>>
    IN  contract \o (IF includes(text, Text_chainId) THEN <<Text_chainIdFact>> ELSE << >>)

\* for (const fact of keyFacts) if ((compressed + '\n' + fact).length <
\* targetLength - 30) compressed += '\n' + fact
RECURSIVE AddFacts(_, _, _)
AddFacts(compressed, keyFacts, targetLength) ==
    IF keyFacts = << >> THEN compressed
    ELSE AddFacts(IF Len(compressed) + 1 + Len(Head(keyFacts)) < targetLength - 30
                  THEN compressed \o <<10>> \o Head(keyFacts) ELSE compressed,
                  Tail(keyFacts), targetLength)

\* text.length > targetLength * 1.5 is compared in integers.
compress(text, targetLength) ==
    LET \* text.replace(/\n{2,}/g, '\n')
        SingleNewlines(t) ==
            SelectSeq([i \in 1..Len(t) |->
                          IF t[i] = 10 /\ i > 1 /\ t[i - 1] = 10 THEN -1 ELSE t[i]],
                      LAMBDA c : c # -1)
        Signalled(compressed) ==
            IF 2 * Len(text) > 3 * targetLength THEN compressed \o Text_sayMoreFull
            ELSE compressed
        Built(compressed) ==
            IF Len(compressed) > targetLength THEN hardTruncate(compressed, targetLength)
            ELSE compressed
        Shortened(compressed) ==
            IF Len(compressed) <= targetLength THEN compressed
            ELSE Built(Signalled(AddFacts(getFirstSentence(text), extractFacts(text),
                                          targetLength)))
    IN  IF Len(text) <= targetLength THEN text ELSE Shortened(SingleNewlines(text))

----------------------------------------------------------------------------
(* pipeline/validator.js *)

\* Each pattern carries the flag i: it is matched against the text in lower
\* case.
FORBIDDEN_OUTPUT_PATTERNS ==
    <<
    \* /\bas\s+an?\s+(ai|artificial\s+intelligence|language\s+model|llm)\b/
    Cat(<<WordBoundary, Lit(<<97, 115>>), Plus(OneOf(WhiteSpace)), Lit(<<97>>), Opt(Lit(<<110>>)), Plus(OneOf(WhiteSpace)), Alt(<<Lit(<<97, 105>>), Cat(<<Lit(<<97, 114, 116, 105, 102, 105, 99, 105, 97, 108>>), Plus(OneOf(WhiteSpace)), Lit(<<105, 110, 116, 101, 108, 108, 105, 103, 101, 110, 99, 101>>)>>), Cat(<<Lit(<<108, 97, 110, 103, 117, 97, 103, 101>>), Plus(OneOf(WhiteSpace)), Lit(<<109, 111, 100, 101, 108>>)>>), Lit(<<108, 108, 109>>)>>), WordBoundary>>),
    \* /\bi'?m\s+(just\s+)?(a|an)\s+(bot|ai|language\s+model)\b/
    Cat(<<WordBoundary, Lit(<<105>>), Opt(Lit(<<39>>)), Lit(<<109>>), Plus(OneOf(WhiteSpace)), Opt(Cat(<<Lit(<<106, 117, 115, 116>>), Plus(OneOf(WhiteSpace))>>)), Alt(<<Lit(<<97>>), Lit(<<97, 110>>)>>), Plus(OneOf(WhiteSpace)), Alt(<<Lit(<<98, 111, 116>>), Lit(<<97, 105>>), Cat(<<Lit(<<108, 97, 110, 103, 117, 97, 103, 101>>), Plus(OneOf(WhiteSpace)), Lit(<<109, 111, 100, 101, 108>>)>>)>>), WordBoundary>>),
    \* /\bi\s+am\s+(a|an)\s+(ai|bot|language\s+model)/
    Cat(<<WordBoundary, Lit(<<105>>), Plus(OneOf(WhiteSpace)), Lit(<<97, 109>>), Plus(OneOf(WhiteSpace)), Alt(<<Lit(<<97>>), Lit(<<97, 110>>)>>), Plus(OneOf(WhiteSpace)), Alt(<<Lit(<<97, 105>>), Lit(<<98, 111, 116>>), Cat(<<Lit(<<108, 97, 110, 103, 117, 97, 103, 101>>), Plus(OneOf(WhiteSpace)), Lit(<<109, 111, 100, 101, 108>>)>>)>>)>>),
    \* /\b(system\s+prompt|openrouter|api\s+key)/
    Cat(<<WordBoundary, Alt(<<Cat(<<Lit(<<115, 121, 115, 116, 101, 109>>), Plus(OneOf(WhiteSpace)), Lit(<<112, 114, 111, 109, 112, 116>>)>>), Lit(<<111, 112, 101, 110, 114, 111, 117, 116, 101, 114>>), Cat(<<Lit(<<97, 112, 105>>), Plus(OneOf(WhiteSpace)), Lit(<<107, 101, 121>>)>>)>>)>>),
    \* /\b(knowledge\s+file|peppercoin\.md)/
    Cat(<<WordBoundary, Alt(<<Cat(<<Lit(<<107, 110, 111, 119, 108, 101, 100, 103, 101>>), Plus(OneOf(WhiteSpace)), Lit(<<102, 105, 108, 101>>)>>), Lit(<<112, 101, 112, 112, 101, 114, 99, 111, 105, 110, 46, 109, 100>>)>>)>>),
    \* /\b(buy|sell)\s+(now|immediately|today|soon)\b/
    Cat(<<WordBoundary, Alt(<<Lit(<<98, 117, 121>>), Lit(<<115, 101, 108, 108>>)>>), Plus(OneOf(WhiteSpace)), Alt(<<Lit(<<110, 111, 119>>), Lit(<<105, 109, 109, 101, 100, 105, 97, 116, 101, 108, 121>>), Lit(<<116, 111, 100, 97, 121>>), Lit(<<115, 111, 111, 110>>)>>), WordBoundary>>),
    \* /\bguaranteed\s+(return|profit)/
    Cat(<<WordBoundary, Lit(<<103, 117, 97, 114, 97, 110, 116, 101, 101, 100>>), Plus(OneOf(WhiteSpace)), Alt(<<Lit(<<114, 101, 116, 117, 114, 110>>), Lit(<<112, 114, 111, 102, 105, 116>>)>>)>>),
    \* /\bprice\s+(will|should|going\s+to)\s+(go|rise|fall|moon)/
    Cat(<<WordBoundary, Lit(<<112, 114, 105, 99, 101>>), Plus(OneOf(WhiteSpace)), Alt(<<Lit(<<119, 105, 108, 108>>), Lit(<<115, 104, 111, 117, 108, 100>>), Cat(<<Lit(<<103, 111, 105, 110, 103>>), Plus(OneOf(WhiteSpace)), Lit(<<116, 111>>)>>)>>), Plus(OneOf(WhiteSpace)), Alt(<<Lit(<<103, 111>>), Lit(<<114, 105, 115, 101>>), Lit(<<102, 97, 108, 108>>), Lit(<<109, 111, 111, 110>>)>>)>>)
    >>

ContainsForbiddenOutput(text) == some(FORBIDDEN_OUTPUT_PATTERNS, ToLowerCase(text))

\* text.replace(pattern, '') for a pattern that ends in $: the leftmost match
\* is cut off.
CutTail(pattern, text) ==
    LET starts == {i \in 1..(Len(text) + 1) : Ends(pattern, text, i) # {}} IN
    IF starts = {} THEN text
    ELSE SubSeq(text, 1, (CHOOSE i \in starts : \A j \in starts : i <= j) - 1)

\* The characters of text at the positions that satisfy Keep, in order.
AtPositions(text, Keep(_)) ==
    LET kept == SelectSeq([i \in 1..Len(text) |-> i], Keep) IN
    [k \in 1..Len(kept) |-> text[kept[k]]]

\* .replace(/\r\n/g, '\n').replace(/\r/g, '\n'): a carriage return before a
\* line feed goes, any other becomes a line feed;
\* .replace(/\n{3,}/g, '\n\n'): of a run of line feeds the first two stay;
\* .replace(/[ \t]{2,}/g, ' '): a run of two or more spaces and tabs becomes
\* one space, a single space or tab stays what it is; then .trim().
normalizeWhitespace(text) ==
    LET UnixNewlines(t) ==
            LET kept == AtPositions(t,
                            LAMBDA i : ~(t[i] = 13 /\ i < Len(t) /\ t[i + 1] = 10))
            IN  [k \in 1..Len(kept) |-> IF kept[k] = 13 THEN 10 ELSE kept[k]]
        SqueezeNewlines(t) ==
            AtPositions(t,
                LAMBDA i : ~(t[i] = 10 /\ i > 2 /\ t[i - 1] = 10 /\ t[i - 2] = 10))
        SqueezeBlanks(t) ==
            LET Blank(i) == i \in 1..Len(t) /\ t[i] \in {32, 9}
                firsts == AtPositions([i \in 1..Len(t) |-> i],
                                      LAMBDA i : ~(Blank(i) /\ Blank(i - 1)))
            IN  [k \in 1..Len(firsts) |->
                    IF Blank(firsts[k]) /\ Blank(firsts[k] + 1) THEN 32 ELSE t[firsts[k]]]
    IN  Trim(SqueezeBlanks(SqueezeNewlines(UnixNewlines(text))))

\* /[\u{1F300}-\u{1F9FF}]$/u: the text ends with the surrogate pair of a
\* code point from U+1F300 to U+1F9FF.
EndsWithEmoji(text) ==
    /\ Len(text) >= 2
    /\ LET high == text[Len(text) - 1]
           low == text[Len(text)]
       IN  \/ high = 55356 /\ low \in 57088..57343
           \/ high = 55357 /\ low \in 56320..57343
           \/ high = 55358 /\ low \in 56320..56831

detectIncomplete(text) ==
    LET \* trimmed.slice(-20)
        Last20(trimmed) == IF Len(trimmed) <= 20 THEN trimmed
                           ELSE SubSeq(trimmed, Len(trimmed) - 19, Len(trimmed))
        \* /[.!?]$/
        EndsSentence == Cat(<<OneOf({46, 33, 63}), EndOfText>>)
        \* /[-–—:,]\s*$/
        DanglingPunctuation ==
            Cat(<<OneOf({45, 8211, 8212, 58, 44}), Star(OneOf(WhiteSpace)), EndOfText>>)
        \* /\([^)]*$/
        OpenParenthesis == Cat(<<Lit(<<40>>), Star(NoneOf({41})), EndOfText>>)
        \* /\[[^\]]*$/
        OpenBracket == Cat(<<Lit(<<91>>), Star(NoneOf({93})), EndOfText>>)
        \* /\b(like|such as|including|and|or|the|a|an|to|for|with|on|at)\s*$/i
        DanglingWord ==
            Cat(<<WordBoundary,
                  Alt(<<Lit(<<108, 105, 107, 101>>), Lit(<<115, 117, 99, 104, 32, 97, 115>>),
                        Lit(<<105, 110, 99, 108, 117, 100, 105, 110, 103>>),
                        Lit(<<97, 110, 100>>), Lit(<<111, 114>>), Lit(<<116, 104, 101>>),
                        Lit(<<97>>), Lit(<<97, 110>>), Lit(<<116, 111>>),
                        Lit(<<102, 111, 114>>), Lit(<<119, 105, 116, 104>>),
                        Lit(<<111, 110>>), Lit(<<97, 116>>)>>),
                  Star(OneOf(WhiteSpace)), EndOfText>>)
        \* /\d+\.\s*$/
        DanglingListItem ==
            Cat(<<Plus(OneOf(Digits)), Lit(<<46>>), Star(OneOf(WhiteSpace)), EndOfText>>)
        Incomplete(trimmed, last20) ==
            IF Len(text) < 50 THEN FALSE
            ELSE IF test(EndsSentence, trimmed) THEN FALSE
            ELSE IF EndsWithEmoji(trimmed) THEN FALSE
            ELSE IF test(DanglingPunctuation, trimmed) THEN TRUE
            ELSE IF test(OpenParenthesis, last20) \/ test(OpenBracket, last20) THEN TRUE
            ELSE IF test(DanglingWord, ToLowerCase(last20)) THEN TRUE
            ELSE IF test(DanglingListItem, last20) THEN TRUE
            ELSE FALSE
    IN  Incomplete(Trim(text), Last20(Trim(text)))

\* \n\n(Response was truncated. Ask a more specific question for details.)
TruncationNote ==
    <<10, 10, 40, 82, 101, 115, 112, 111, 110, 115, 101, 32, 119, 97, 115, 32,
      116, 114, 117, 110, 99, 97, 116, 101, 100, 46, 32, 65, 115, 107, 32, 97,
      32, 109, 111, 114, 101, 32, 115, 112, 101, 99, 105, 102, 105, 99, 32,
      113, 117, 101, 115, 116, 105, 111, 110, 32, 102, 111, 114, 32, 100, 101,
      116, 97, 105, 108, 115, 46, 41>>

fixIncompleteResponse(text) ==
    LET Count(t, c) == Len(SelectSeq(t, LAMBDA d : d = c))
        \* /[-–—:,]\s*$/
        DanglingPunctuation ==
            Cat(<<OneOf({45, 8211, 8212, 58, 44}), Star(OneOf(WhiteSpace)), EndOfText>>)
        \* /\n\d+\.\s*$/
        DanglingListLine ==
            Cat(<<Lit(<<10>>), Plus(OneOf(Digits)), Lit(<<46>>), Star(OneOf(WhiteSpace)),
                  EndOfText>>)
        \* /\([^)]*$/
        OpenParenthesis == Cat(<<Lit(<<40>>), Star(NoneOf({41})), EndOfText>>)
        \* /[.!?]$/
        EndsSentence == Cat(<<OneOf({46, 33, 63}), EndOfText>>)
        \* an unclosed parenthesis goes with what follows it
        Closed(cut) == IF Count(cut, 40) > Count(cut, 41)
                       THEN CutTail(OpenParenthesis, cut) ELSE cut
        Ended(fixed) ==
            (IF test(EndsSentence, fixed) THEN fixed ELSE fixed \o <<46, 46, 46>>)   \* '...'
            \o TruncationNote
    IN  Ended(Trim(Closed(CutTail(DanglingListLine,
                                  CutTail(DanglingPunctuation, Trim(text))))))

\* validate(generated, charBudget) with the two limits of constants.js as
\* parameters.  Step 2 comes before step 3: a text over the hard limit is
\* compressed, and the forbidden patterns are looked for in what is left.
validateWithin(text, hardLimit, softLimit) ==
    LET Completed(normalized) ==
            IF detectIncomplete(normalized)
            THEN fixIncompleteResponse(normalized) ELSE normalized
        Checked(final, wasCompressed) ==
            IF Len(final) = 0
            THEN [valid |-> FALSE, text |-> << >>, wasCompressed |-> wasCompressed,
                  error |-> "Empty after processing"]
            ELSE [valid |-> TRUE, text |-> final, wasCompressed |-> wasCompressed,
                  error |-> "null"]
        Screened(limited, wasCompressed) ==
            IF ContainsForbiddenOutput(limited)
            THEN [valid |-> FALSE, text |-> << >>, wasCompressed |-> wasCompressed,
                  error |-> "Contains forbidden content"]
            ELSE Checked(Completed(normalizeWhitespace(limited)), wasCompressed)
    IN  IF Len(text) < MIN_RESPONSE_LENGTH
        THEN [valid |-> FALSE, text |-> << >>, wasCompressed |-> FALSE,
              error |-> "Response too short"]
        ELSE IF Len(text) > hardLimit
        THEN Screened(hardTruncate(compress(text, softLimit), hardLimit), TRUE)
        ELSE Screened(text, FALSE)

validate(text) == validateWithin(text, HARD_CHAR_LIMIT, SOFT_CHAR_LIMIT)

----------------------------------------------------------------------------
(* ai/openrouterClient.js *)

\* What the remote model does with one request: it answers with a content,
\* answers with none, answers with a non-success status, does not answer
\* before the timeout, or the request fails with an error.
\* Peppercoin is the first meme coin on Chiliz Chain.
Content_answer ==
    <<80, 101, 112, 112, 101, 114, 99, 111, 105, 110, 32, 105, 115, 32, 116,
      104, 101, 32, 102, 105, 114, 115, 116, 32, 109, 101, 109, 101, 32, 99,
      111, 105, 110, 32, 111, 110, 32, 67, 104, 105, 108, 105, 122, 32, 67,
      104, 97, 105, 110, 46>>

\* As an AI, I think you should buy now.
Content_asAnAI ==
    <<65, 115, 32, 97, 110, 32, 65, 73, 44, 32, 73, 32, 116, 104, 105, 110,
      107, 32, 121, 111, 117, 32, 115, 104, 111, 117, 108, 100, 32, 98, 117,
      121, 32, 110, 111, 119, 46>>

\* Sorry, there was an error.
Content_withError ==
    <<83, 111, 114, 114, 121, 44, 32, 116, 104, 101, 114, 101, 32, 119, 97,
      115, 32, 97, 110, 32, 101, 114, 114, 111, 114, 46>>

\* Yes
Content_short ==
    <<89, 101, 115>>

\*    
Content_blank ==
    <<32, 32, 32>>

\* PEPPER is the community token of Chiliz Chain and it is used for
Content_cutOff ==
    <<80, 69, 80, 80, 69, 82, 32, 105, 115, 32, 116, 104, 101, 32, 99, 111,
      109, 109, 117, 110, 105, 116, 121, 32, 116, 111, 107, 101, 110, 32, 111,
      102, 32, 67, 104, 105, 108, 105, 122, 32, 67, 104, 97, 105, 110, 32, 97,
      110, 100, 32, 105, 116, 32, 105, 115, 32, 117, 115, 101, 100, 32, 102,
      111, 114>>

Contents ==
    {Content_answer, Content_asAnAI, Content_withError, Content_short,
     Content_blank, Content_cutOff}

NoReply == [kind |-> "none", content |-> << >>, total_tokens |-> 0]

RemoteFailures ==
    {[kind |-> k, content |-> << >>, total_tokens |-> 0] :
        k \in {"timeout", "status", "empty", "error"}}

RemoteReplies ==
    RemoteFailures
    \cup {[kind |-> "content", content |-> t, total_tokens |-> 12] : t \in Contents}

chatCompletion(reply) ==
    IF reply.kind = "content" /\ reply.content # << >>
    THEN [success |-> TRUE, content |-> Trim(reply.content),
          total_tokens |-> reply.total_tokens]
    ELSE [success |-> FALSE, content |-> << >>, total_tokens |-> 0]

----------------------------------------------------------------------------
(* What the pure stages make of each message of the model *)

forbiddenChecks == [q \in PipeQueries |-> checkForbidden(q)]
classifications == [q \in PipeQueries |-> classify(q)]
forbiddenTypes == [q \in PipeQueries |-> detectForbiddenType(q)]
factualMatches == [q \in PipeQueries |-> matchFactualTemplate(q)]

----------------------------------------------------------------------------
(* pipeline/generator.js *)

\* I am temporarily unable to access my knowledge base. Please try again later.
KnowledgeUnavailableText ==
    <<73, 32, 97, 109, 32, 116, 101, 109, 112, 111, 114, 97, 114, 105, 108,
      121, 32, 117, 110, 97, 98, 108, 101, 32, 116, 111, 32, 97, 99, 99, 101,
      115, 115, 32, 109, 121, 32, 107, 110, 111, 119, 108, 101, 100, 103, 101,
      32, 98, 97, 115, 101, 46, 32, 80, 108, 101, 97, 115, 101, 32, 116, 114,
      121, 32, 97, 103, 97, 105, 110, 32, 108, 97, 116, 101, 114, 46>>

\* I encountered an issue generating a response. Please try again.
GenerationIssueText ==
    <<73, 32, 101, 110, 99, 111, 117, 110, 116, 101, 114, 101, 100, 32, 97,
      110, 32, 105, 115, 115, 117, 101, 32, 103, 101, 110, 101, 114, 97, 116,
      105, 110, 103, 32, 97, 32, 114, 101, 115, 112, 111, 110, 115, 101, 46,
      32, 80, 108, 101, 97, 115, 101, 32, 116, 114, 121, 32, 97, 103, 97, 105,
      110, 46>>

\* error
Text_error ==
    <<101, 114, 114, 111, 114>>

GeneratedResponse(text, tokensUsed, fromCache, fromTemplate) ==
    [text |-> text, tokensUsed |-> tokensUsed,
     fromCache |-> fromCache, fromTemplate |-> fromTemplate]

\* The pool generateFromTemplate draws from.
TemplatePool(responseClass, query) ==
    CASE responseClass = "GREETING" -> GREETING_TEMPLATES
      [] responseClass = "CLOSING" -> CLOSING_TEMPLATES
      [] responseClass = "REFUSAL" -> RefusalPool(forbiddenTypes[query])
      [] OTHER -> GREETING_TEMPLATES

generateFromTemplate(responseClass, query, pick) ==
    TemplatePool(responseClass, query)[pick]

\* generateFromAI without the test of isKnowledgeAvailable().
generateFromAI_noGate(reply, knowledge) ==
    LET result == chatCompletion(reply) IN
    IF ~result.success THEN GeneratedResponse(GenerationIssueText, 0, FALSE, FALSE)
    ELSE GeneratedResponse(result.content, result.total_tokens, FALSE, FALSE)

generateFromAI_noFallback(reply, knowledge) ==
    IF ~knowledge THEN GeneratedResponse(KnowledgeUnavailableText, 0, FALSE, FALSE)
    ELSE LET result == chatCompletion(reply) IN
         GeneratedResponse(result.content, result.total_tokens, FALSE, FALSE)

\* The remote model is called once, unless the knowledge is unavailable.
generateFromAI(reply, knowledge) ==
    IF ~knowledge THEN GeneratedResponse(KnowledgeUnavailableText, 0, FALSE, FALSE)
    ELSE LET result == chatCompletion(reply) IN
         IF ~result.success THEN GeneratedResponse(GenerationIssueText, 0, FALSE, FALSE)
         ELSE GeneratedResponse(result.content, result.total_tokens, FALSE, FALSE)

\* if (aiResponse.text)
WorthCaching_nonEmpty(text) == text # << >>

\* if (aiResponse.text && !aiResponse.text.includes('error'))
WorthCaching(text) == text # << >> /\ ~includes(text, Text_error)

\* Every text generateFromAI can return in the model, and those of them that
\* generate writes to the cache.
AITexts == {Trim(t) : t \in Contents} \cup {KnowledgeUnavailableText, GenerationIssueText}
cacheable == {text \in AITexts : WorthCaching(text)}

\* generate writing the text of a template to the cache.
generate_templateStored(responsePlan, query, c, t, reply, pick, latency, knowledge) ==
    LET Local(response, c1, gets) ==
            [response |-> response, cache |-> c1, cacheOps |-> gets,
             remote |-> NoReply, remoteCalls |-> 0, elapsed |-> 0]
        FromAI(aiResponse, c1, gets, elapsed) ==
            [response |-> aiResponse,
             cache |-> IF aiResponse.text \in cacheable
                       THEN CacheAfterSet(c1, query, aiResponse.text,
                                          CACHE_TTL_FACTS, t + elapsed)
                       ELSE c1,
             cacheOps |-> IF aiResponse.text \in cacheable
                          THEN Append(gets, [op |-> "set", query |-> query,
                                             response |-> aiResponse.text])
                          ELSE gets,
             remote |-> IF knowledge THEN reply ELSE NoReply,
             remoteCalls |-> IF knowledge THEN 1 ELSE 0,
             elapsed |-> elapsed]
        AfterGet(cached, c1) ==
            IF cached.hit
            THEN Local(GeneratedResponse(cached.response, 0, TRUE, FALSE), c1,
                       <<[op |-> "get", query |-> query, hit |-> TRUE]>>)
            ELSE FromAI(generateFromAI(reply, knowledge), c1,
                        <<[op |-> "get", query |-> query, hit |-> FALSE]>>,
                        IF knowledge THEN latency ELSE 0)
        Generate(factualMatch) ==
            IF responsePlan.strategy = "template"
            THEN Local(GeneratedResponse(
                           generateFromTemplate(responsePlan.responseClass, query, pick),
                           0, FALSE, TRUE),
                       CacheAfterSet(c, query,
                                     generateFromTemplate(responsePlan.responseClass, query, pick),
                                     CACHE_TTL_FACTS, t),
                       <<[op |-> "set", query |-> query,
                          response |-> generateFromTemplate(responsePlan.responseClass, query, pick)]>>)
            ELSE IF responsePlan.strategy = "cache" /\ factualMatch # NoTemplate
            THEN Local(GeneratedResponse(factualMatch, 0, FALSE, TRUE), c, << >>)
            ELSE IF responsePlan.strategy = "cache"
            THEN AfterGet(CacheGetResult(c, query, t), CacheAfterGet(c, query, t))
            ELSE FromAI(generateFromAI(reply, knowledge), c, << >>,
                        IF knowledge THEN latency ELSE 0)
    IN  Generate(factualMatches[query])

\* generate(plan, query, classification) on the cache c at time t.  The
\* remote call, when there is one, takes `latency` ticks, and the cache is
\* written after it.  The result holds the response and what the call did:
\* the cache it leaves, its cache calls in order, and its remote calls.
generate(responsePlan, query, c, t, reply, pick, latency, knowledge) ==
    LET Local(response, c1, gets) ==
            [response |-> response, cache |-> c1, cacheOps |-> gets,
             remote |-> NoReply, remoteCalls |-> 0, elapsed |-> 0]
        FromAI(aiResponse, c1, gets, elapsed) ==
            [response |-> aiResponse,
             cache |-> IF aiResponse.text \in cacheable
                       THEN CacheAfterSet(c1, query, aiResponse.text,
                                          CACHE_TTL_FACTS, t + elapsed)
                       ELSE c1,
             cacheOps |-> IF aiResponse.text \in cacheable
                          THEN Append(gets, [op |-> "set", query |-> query,
                                             response |-> aiResponse.text])
                          ELSE gets,
             remote |-> IF knowledge THEN reply ELSE NoReply,
             remoteCalls |-> IF knowledge THEN 1 ELSE 0,
             elapsed |-> elapsed]
        AfterGet(cached, c1) ==
            IF cached.hit
            THEN Local(GeneratedResponse(cached.response, 0, TRUE, FALSE), c1,
                       <<[op |-> "get", query |-> query, hit |-> TRUE]>>)
            ELSE FromAI(generateFromAI(reply, knowledge), c1,
                        <<[op |-> "get", query |-> query, hit |-> FALSE]>>,
                        IF knowledge THEN latency ELSE 0)
        Generate(factualMatch) ==
            IF responsePlan.strategy = "template"
            THEN Local(GeneratedResponse(
                           generateFromTemplate(responsePlan.responseClass, query, pick),
                           0, FALSE, TRUE),
                       c, << >>)
            ELSE IF responsePlan.strategy = "cache" /\ factualMatch # NoTemplate
            THEN Local(GeneratedResponse(factualMatch, 0, FALSE, TRUE), c, << >>)
            ELSE IF responsePlan.strategy = "cache"
            THEN AfterGet(CacheGetResult(c, query, t), CacheAfterGet(c, query, t))
            ELSE FromAI(generateFromAI(reply, knowledge), c, << >>,
                        IF knowledge THEN latency ELSE 0)
    IN  Generate(factualMatches[query])

----------------------------------------------------------------------------
(* ai/openrouterClient.js: one chatCompletion call, step by step *)

TimeoutTicks == 2    \* config.openRouter.timeoutMs, in ticks of the clock
MaxFetchCalls == 2

NoResult == [success |-> FALSE, content |-> << >>, total_tokens |-> 0, error |-> "none"]

Failure(error) ==
    [success |-> FALSE, content |-> << >>, total_tokens |-> 0, error |-> error]

FetchCallsMade == IF request = NoCall THEN 0 ELSE request.calls

\* chatCompletion(messages, options) up to its first await: without an API
\* key it returns at once; otherwise it arms the timer that aborts the
\* request and calls fetch.
chatCompletionCalled(apiKey) ==
    /\ IF request = NoCall THEN TRUE ELSE request.phase = "returned"
    /\ FetchCallsMade < MaxFetchCalls
    /\ request' = IF apiKey
                  THEN [phase |-> "fetch", startedAt |-> now, timerArmed |-> TRUE,
                        result |-> NoResult, calls |-> FetchCallsMade + 1]
                  ELSE [phase |-> "returned", startedAt |-> now, timerArmed |-> FALSE,
                        result |-> Failure("AI service not configured"),
                        calls |-> FetchCallsMade + 1]
    /\ UNCHANGED now
    /\ OnlyFetch

\* await fetch(...) resolves with the response, which is when its status and
\* headers are there: clearTimeout(timeoutId), then the body is read.
fetchResolves(ok) ==
    /\ request # NoCall
    /\ request.phase = "fetch"
    /\ request' = [request EXCEPT !.timerArmed = FALSE,
                                  !.phase = IF ok THEN "json" ELSE "text"]
    /\ UNCHANGED now
    /\ OnlyFetch

\* setTimeout(() => controller.abort(), timeoutMs): the fetch is rejected
\* with an AbortError, which the catch block turns into a result.
timerFires ==
    /\ request # NoCall
    /\ request.timerArmed
    /\ now - request.startedAt >= TimeoutTicks
    /\ request' = [request EXCEPT !.timerArmed = FALSE, !.phase = "returned",
                                  !.result = Failure("Request timed out")]
    /\ UNCHANGED now
    /\ OnlyFetch

\* fetch, response.text() or response.json() is rejected with an error other
\* than the abort: catch (err) { clearTimeout(timeoutId); ... }
awaitRejects ==
    /\ request # NoCall
    /\ request.phase \in {"fetch", "text", "json"}
    /\ request' = [request EXCEPT !.timerArmed = FALSE, !.phase = "returned",
                                  !.result = Failure("err.message")]
    /\ UNCHANGED now
    /\ OnlyFetch

\* await response.text() of a response that is not ok
textResolves ==
    /\ request # NoCall
    /\ request.phase = "text"
    /\ request' = [request EXCEPT !.phase = "returned",
                                  !.result = Failure("API error")]
    /\ UNCHANGED now
    /\ OnlyFetch

\* await response.json() resolves with the body
jsonResolves(content) ==
    /\ request # NoCall
    /\ request.phase = "json"
    /\ request' =
           [request EXCEPT
               !.phase = "returned",
               !.result =
                   IF content = << >> THEN Failure("Empty response from AI")
                   ELSE [success |-> TRUE, content |-> Trim(content),
                         total_tokens |-> 12, error |-> "null"]]
    /\ UNCHANGED now
    /\ OnlyFetch

\* Time passes; a timer that is due runs before the clock goes on.
TickFetch ==
    /\ Tick
    /\ ~(request # NoCall /\ request.timerArmed
         /\ now - request.startedAt >= TimeoutTicks)
    /\ UNCHANGED request
    /\ OnlyFetch

InitFetch ==
    /\ now = 0
    /\ IdleRate
    /\ IdleCache
    /\ IdleDup
    /\ IdlePipe
    /\ IdleBot
    /\ IdleFetch
    /\ IdleLoader
    /\ IdleHandlers
    /\ IdlePure

NextFetch ==
    \/ TickFetch
    \/ \E apiKey \in BOOLEAN : chatCompletionCalled(apiKey)
    \/ \E ok \in BOOLEAN : fetchResolves(ok)
    \/ timerFires
    \/ awaitRejects
    \/ textResolves
    \/ \E content \in Contents \cup {<< >>} : jsonResolves(content)

SpecFetch == InitFetch /\ [][NextFetch]_vars

----------------------------------------------------------------------------
(* pipeline/planner.js: plan and selectModel applied to a classification *)

MaxComplexity == 10     \* calculateComplexity: Math.min(score, 10)
MaxApplications == 2

\* The values of getResponseClass.
ResponseClasses == {"GREETING", "CLOSING", "REFUSAL", "FACTUAL", "PROCEDURAL"}

Classifications ==
    {[responseClass |-> responseClass, complexity |-> complexity,
      charBudget |-> CHAR_BUDGETS[responseClass]] :
        responseClass \in ResponseClasses, complexity \in 0..MaxComplexity}

Given(classification) ==
    [op |-> "given", input |-> classification, result |-> NoCall]

\* The next classification: a response class of the classifier with a
\* complexity of its range.
classified(classification) ==
    /\ applied.op # "given"
    /\ applications < MaxApplications
    /\ applied' = Given(classification)
    /\ applications' = applications + 1
    /\ OnlyPure

planCalled ==
    /\ applied.op = "given"
    /\ applied' = [op |-> "plan", input |-> applied.input,
                   result |-> plan(applied.input)]
    /\ UNCHANGED applications
    /\ OnlyPure

selectModelCalled ==
    /\ applied.op = "given"
    /\ applied' = [op |-> "selectModel", input |-> applied.input,
                   result |-> [model |-> selectModel(applied.input.complexity)]]
    /\ UNCHANGED applications
    /\ OnlyPure

InitPlanner ==
    /\ now = 0
    /\ IdleRate
    /\ IdleCache
    /\ IdleDup
    /\ IdlePipe
    /\ IdleBot
    /\ IdleFetch
    /\ IdleLoader
    /\ IdleHandlers
    /\ applied \in {Given(classification) : classification \in Classifications}
    /\ applications = 0

NextPlanner ==
    \/ \E classification \in Classifications : classified(classification)
    \/ planCalled
    \/ selectModelCalled

SpecPlanner == InitPlanner /\ [][NextPlanner]_vars

----------------------------------------------------------------------------
(* pipeline/validator.js: validate applied to texts around the length limits *)

\* The two limits, scaled down in the ratio of constants.js (3500 : 3000).
ScaledHardLimit == 140
ScaledSoftLimit == 120
MaxValidations == 2

\* Pepper is a fan token.
Opening_clean ==
    <<80, 101, 112, 112, 101, 114, 32, 105, 115, 32, 97, 32, 102, 97, 110, 32,
      116, 111, 107, 101, 110, 46>>

\* As an AI I like Pepper.
Opening_asAnAI ==
    <<65, 115, 32, 97, 110, 32, 65, 73, 32, 73, 32, 108, 105, 107, 101, 32,
      80, 101, 112, 112, 101, 114, 46>>

\*  It lives on Chiliz Chain and fans use it
Filler ==
    <<32, 73, 116, 32, 108, 105, 118, 101, 115, 32, 111, 110, 32, 67, 104,
      105, 108, 105, 122, 32, 67, 104, 97, 105, 110, 32, 97, 110, 100, 32,
      102, 97, 110, 115, 32, 117, 115, 101, 32, 105, 116>>

\* .
Ending_none ==
    <<46>>

\* . You should buy now.
Ending_buyNow ==
    <<46, 32, 89, 111, 117, 32, 115, 104, 111, 117, 108, 100, 32, 98, 117,
      121, 32, 110, 111, 119, 46>>

\* . Chain ID is 88888.
Ending_chainId ==
    <<46, 32, 67, 104, 97, 105, 110, 32, 73, 68, 32, 105, 115, 32, 56, 56, 56,
      56, 56, 46>>

\* Yes
Short_yes ==
    <<89, 101, 115>>

\* Yes.         
Short_trailing ==
    <<89, 101, 115, 46, 32, 32, 32, 32, 32, 32, 32, 32, 32>>

\* \n\n      Yes.
Short_leading ==
    <<10, 10, 32, 32, 32, 32, 32, 32, 89, 101, 115, 46>>

\*             
Short_blank ==
    <<32, 32, 32, 32, 32, 32, 32, 32, 32, 32, 32, 32>>

\* . Holders vote in polls and
Ending_cutOff ==
    <<46, 32, 72, 111, 108, 100, 101, 114, 115, 32, 118, 111, 116, 101, 32,
      105, 110, 32, 112, 111, 108, 108, 115, 32, 97, 110, 100>>

\* . Holders vote and earn rewards.
Ending_rewards ==
    <<46, 32, 72, 111, 108, 100, 101, 114, 115, 32, 118, 111, 116, 101, 32,
      97, 110, 100, 32, 101, 97, 114, 110, 32, 114, 101, 119, 97, 114, 100,
      115, 46>>

RECURSIVE Repeat(_, _)
Repeat(s, n) == IF n = 0 THEN << >> ELSE s \o Repeat(s, n - 1)

\* Under the hard limit; over it; over one and a half times the soft limit;
\* over the hard limit with blank lines enough that removing them brings the
\* text under the soft limit.
Bodies ==
    {Repeat(Filler, 1), Repeat(Filler, 3), Repeat(Filler, 5),
     Filler \o Repeat(<<10>>, 90)}

\* Texts under the minimum length, alone and with whitespace around them,
\* and whitespace alone.
ShortTexts == {Short_yes, Short_trailing, Short_leading, Short_blank}

\* Texts a few characters under the hard limit: one that ends in the
\* middle of a sentence and one that ends with a full stop.
NearLimitTexts ==
    {Opening_clean \o Repeat(Filler, 2) \o ending :
        ending \in {Ending_cutOff, Ending_rewards}}

ValidatorTexts ==
    {opening \o body \o ending :
        opening \in {Opening_clean, Opening_asAnAI},
        body \in Bodies,
        ending \in {Ending_none, Ending_buyNow, Ending_chainId}}
    \cup ShortTexts \cup NearLimitTexts

Generated(text) == [op |-> "generated", input |-> text, result |-> NoCall]

\* The next text comes out of the generator.
generated(text) ==
    /\ applied.op # "generated"
    /\ applications < MaxValidations
    /\ applied' = Generated(text)
    /\ applications' = applications + 1
    /\ OnlyPure

compressCalled ==
    /\ applied.op = "generated"
    /\ applied' = [op |-> "compress", input |-> applied.input,
                   result |-> [text |-> compress(applied.input, ScaledSoftLimit)]]
    /\ UNCHANGED applications
    /\ OnlyPure

validateCalled ==
    /\ applied.op = "generated"
    /\ applied' = [op |-> "validate", input |-> applied.input,
                   result |-> validateWithin(applied.input, ScaledHardLimit,
                                             ScaledSoftLimit)]
    /\ UNCHANGED applications
    /\ OnlyPure

InitValidator ==
    /\ now = 0
    /\ IdleRate
    /\ IdleCache
    /\ IdleDup
    /\ IdlePipe
    /\ IdleBot
    /\ IdleFetch
    /\ IdleLoader
    /\ IdleHandlers
    /\ applied \in {Generated(text) : text \in ValidatorTexts}
    /\ applications = 0

NextValidator ==
    \/ \E text \in ValidatorTexts : generated(text)
    \/ compressCalled
    \/ validateCalled

SpecValidator == InitValidator /\ [][NextValidator]_vars

----------------------------------------------------------------------------
(* pipeline/classifier.js: classify applied to queries of every intent with
   the signals calculateComplexity counts *)

MaxPadding == 210
MaxMarks == 3
MaxClassifications == 2

\* hi
Opening_hi ==
    <<104, 105>>

\* thanks
Opening_thanks ==
    <<116, 104, 97, 110, 107, 115>>

\* how do i stake
Opening_howDoI ==
    <<104, 111, 119, 32, 100, 111, 32, 105, 32, 115, 116, 97, 107, 101>>

\* what is pepper
Opening_whatIs ==
    <<119, 104, 97, 116, 32, 105, 115, 32, 112, 101, 112, 112, 101, 114>>

\* explain
Signal_explain ==
    <<101, 120, 112, 108, 97, 105, 110>>

\* all
Signal_all ==
    <<97, 108, 108>>

Openings == {Opening_hi, Opening_thanks, Opening_howDoI, Opening_whatIs}
Signals == {<< >>, Signal_explain, Signal_all}
Paddings == {0, 20, 110, MaxPadding}

\* n characters of words that no pattern of the classifier names.
Padding(n) == [i \in 1..n |-> IF i % 5 = 0 THEN 32 ELSE 122]

\* An opening, a signal word, padding and question marks, with a space
\* between them.
QueryParts ==
    [opening : Openings, signal : Signals, padding : Paddings, marks : 0..MaxMarks]

QueryText(parts) ==
    parts.opening
    \o (IF parts.signal = << >> THEN << >> ELSE <<32>> \o parts.signal)
    \o (IF parts.padding = 0 THEN << >> ELSE <<32>> \o Padding(parts.padding))
    \o [i \in 1..parts.marks |-> 63]

classified_parts == [parts \in QueryParts |-> classify(QueryText(parts))]

Typed(parts) == [op |-> "typed", input |-> parts, result |-> NoCall]

\* The next query is typed.
typed(parts) ==
    /\ applied.op # "typed"
    /\ applications < MaxClassifications
    /\ applied' = Typed(parts)
    /\ applications' = applications + 1
    /\ OnlyPure

classifyCalled ==
    /\ applied.op = "typed"
    /\ applied' = [op |-> "classify", input |-> applied.input,
                   result |-> classified_parts[applied.input]]
    /\ UNCHANGED applications
    /\ OnlyPure

InitClassify ==
    /\ now = 0
    /\ IdleRate
    /\ IdleCache
    /\ IdleDup
    /\ IdlePipe
    /\ IdleBot
    /\ IdleFetch
    /\ IdleLoader
    /\ IdleHandlers
    /\ applied \in {Typed(parts) : parts \in QueryParts}
    /\ applications = 0

NextClassify ==
    \/ \E parts \in QueryParts : typed(parts)
    \/ classifyCalled

SpecClassify == InitClassify /\ [][NextClassify]_vars

----------------------------------------------------------------------------
(* safety/intentDetector.js: checkForbidden applied to queries made of
   phrases of the pattern families *)

MaxPhrases == 4
MaxForbiddenChecks == 2

\* Should I buy
Phrase_investment ==
    <<83, 104, 111, 117, 108, 100, 32, 73, 32, 98, 117, 121>>

\* wen moon
Phrase_price ==
    <<119, 101, 110, 32, 109, 111, 111, 110>>

\* bullish
Phrase_sentiment ==
    <<98, 117, 108, 108, 105, 115, 104>>

\* jailbreak
Phrase_adversarial ==
    <<106, 97, 105, 108, 98, 114, 101, 97, 107>>

\* what is pepper
Phrase_neutral ==
    <<119, 104, 97, 116, 32, 105, 115, 32, 112, 101, 112, 112, 101, 114>>

\* The phrases a query is made of: its text, and the pattern families it
\* belongs to ("wen moon" is a price pattern, and its "moon" is a sentiment
\* word).
Phrases ==
    [investment |-> [text |-> Phrase_investment, families |-> {"INVESTMENT_ADVICE"}],
     price |-> [text |-> Phrase_price, families |-> {"PRICE_SPECULATION", "MARKET_SENTIMENT"}],
     sentiment |-> [text |-> Phrase_sentiment, families |-> {"MARKET_SENTIMENT"}],
     adversarial |-> [text |-> Phrase_adversarial, families |-> {"ADVERSARIAL"}],
     neutral |-> [text |-> Phrase_neutral, families |-> {}]]

\* The phrases of a query, each at most once, in any order.
PhraseLists ==
    {names \in UNION {[1..n -> DOMAIN Phrases] : n \in 0..MaxPhrases} :
        \A i, j \in 1..Len(names) : names[i] = names[j] => i = j}

\* The text of the query: its phrases with a space between them.
RECURSIVE QueryOf(_)
QueryOf(names) ==
    IF names = << >> THEN << >>
    ELSE IF Len(names) = 1 THEN Phrases[names[1]].text
    ELSE Phrases[names[1]].text \o <<32>> \o QueryOf(Tail(names))

phraseChecks == [names \in PhraseLists |-> checkForbidden(QueryOf(names))]

Received(names) == [op |-> "received", input |-> names, result |-> NoCall]

\* The next message text arrives.
received(names) ==
    /\ applied.op # "received"
    /\ applications < MaxForbiddenChecks
    /\ applied' = Received(names)
    /\ applications' = applications + 1
    /\ OnlyPure

checkForbiddenCalled ==
    /\ applied.op = "received"
    /\ applied' = [op |-> "checkForbidden", input |-> applied.input,
                   result |-> phraseChecks[applied.input]]
    /\ UNCHANGED applications
    /\ OnlyPure

InitForbidden ==
    /\ now = 0
    /\ IdleRate
    /\ IdleCache
    /\ IdleDup
    /\ IdlePipe
    /\ IdleBot
    /\ IdleFetch
    /\ IdleLoader
    /\ IdleHandlers
    /\ applied \in {Received(names) : names \in PhraseLists}
    /\ applications = 0

NextForbidden ==
    \/ \E names \in PhraseLists : received(names)
    \/ checkForbiddenCalled

SpecForbidden == InitForbidden /\ [][NextForbidden]_vars

----------------------------------------------------------------------------
(* delivery/formatter.js and knowledge/verifiedLinks.js *)

\* LINK_TRIGGERS, with the url of VERIFIED_LINKS and the label of getLinkLabel
\* for each key
LINK_TRIGGERS ==
    <<
     [key |-> "website",
      \* website, site, homepage, main page, official site, home, all links, all the links, links
      triggers |->
          <<<<119, 101, 98, 115, 105, 116, 101>>, <<115, 105, 116, 101>>,
            <<104, 111, 109, 101, 112, 97, 103, 101>>, <<109, 97, 105, 110,
            32, 112, 97, 103, 101>>, <<111, 102, 102, 105, 99, 105, 97, 108,
            32, 115, 105, 116, 101>>, <<104, 111, 109, 101>>, <<97, 108, 108,
            32, 108, 105, 110, 107, 115>>, <<97, 108, 108, 32, 116, 104, 101,
            32, 108, 105, 110, 107, 115>>, <<108, 105, 110, 107, 115>>>>,
      \* https://www.peppercoin.com
      url |->
          <<104, 116, 116, 112, 115, 58, 47, 47, 119, 119, 119, 46, 112, 101,
            112, 112, 101, 114, 99, 111, 105, 110, 46, 99, 111, 109>>,
      label |-> <<79, 102, 102, 105, 99, 105, 97, 108, 32, 87, 101, 98, 115, 105, 116, 101>>],
     [key |-> "twitter",
      \* twitter, x.com, tweet, x account, social, all links, all the links, links
      triggers |->
          <<<<116, 119, 105, 116, 116, 101, 114>>, <<120, 46, 99, 111, 109>>,
            <<116, 119, 101, 101, 116>>, <<120, 32, 97, 99, 99, 111, 117, 110,
            116>>, <<115, 111, 99, 105, 97, 108>>, <<97, 108, 108, 32, 108,
            105, 110, 107, 115>>, <<97, 108, 108, 32, 116, 104, 101, 32, 108,
            105, 110, 107, 115>>, <<108, 105, 110, 107, 115>>>>,
      \* https://x.com/PepperChain
      url |->
          <<104, 116, 116, 112, 115, 58, 47, 47, 120, 46, 99, 111, 109, 47,
            80, 101, 112, 112, 101, 114, 67, 104, 97, 105, 110>>,
      label |-> <<84, 119, 105, 116, 116, 101, 114, 47, 88>>],
     [key |-> "telegram",
      \* telegram, tg, chat, group, community chat, all links, all the links, links
      triggers |->
          <<<<116, 101, 108, 101, 103, 114, 97, 109>>, <<116, 103>>, <<99,
            104, 97, 116>>, <<103, 114, 111, 117, 112>>, <<99, 111, 109, 109,
            117, 110, 105, 116, 121, 32, 99, 104, 97, 116>>, <<97, 108, 108,
            32, 108, 105, 110, 107, 115>>, <<97, 108, 108, 32, 116, 104, 101,
            32, 108, 105, 110, 107, 115>>, <<108, 105, 110, 107, 115>>>>,
      \* https://t.me/officialpeppercoin
      url |->
          <<104, 116, 116, 112, 115, 58, 47, 47, 116, 46, 109, 101, 47, 111,
            102, 102, 105, 99, 105, 97, 108, 112, 101, 112, 112, 101, 114, 99,
            111, 105, 110>>,
      label |-> <<84, 101, 108, 101, 103, 114, 97, 109>>],
     [key |-> "coingecko",
      \* coingecko, cg, coin gecko, price, chart, market cap, all links, all the links, links
      triggers |->
          <<<<99, 111, 105, 110, 103, 101, 99, 107, 111>>, <<99, 103>>, <<99,
            111, 105, 110, 32, 103, 101, 99, 107, 111>>, <<112, 114, 105, 99,
            101>>, <<99, 104, 97, 114, 116>>, <<109, 97, 114, 107, 101, 116,
            32, 99, 97, 112>>, <<97, 108, 108, 32, 108, 105, 110, 107, 115>>,
            <<97, 108, 108, 32, 116, 104, 101, 32, 108, 105, 110, 107, 115>>,
            <<108, 105, 110, 107, 115>>>>,
      \* https://www.coingecko.com/en/coins/pepper
      url |->
          <<104, 116, 116, 112, 115, 58, 47, 47, 119, 119, 119, 46, 99, 111,
            105, 110, 103, 101, 99, 107, 111, 46, 99, 111, 109, 47, 101, 110,
            47, 99, 111, 105, 110, 115, 47, 112, 101, 112, 112, 101, 114>>,
      label |-> <<67, 111, 105, 110, 71, 101, 99, 107, 111>>],
     [key |-> "governance",
      \* governance, pepper inc, pepperinc, vote, voting, stake, staking, dao, all links, all the links, links
      triggers |->
          <<<<103, 111, 118, 101, 114, 110, 97, 110, 99, 101>>, <<112, 101,
            112, 112, 101, 114, 32, 105, 110, 99>>, <<112, 101, 112, 112, 101,
            114, 105, 110, 99>>, <<118, 111, 116, 101>>, <<118, 111, 116, 105,
            110, 103>>, <<115, 116, 97, 107, 101>>, <<115, 116, 97, 107, 105,
            110, 103>>, <<100, 97, 111>>, <<97, 108, 108, 32, 108, 105, 110,
            107, 115>>, <<97, 108, 108, 32, 116, 104, 101, 32, 108, 105, 110,
            107, 115>>, <<108, 105, 110, 107, 115>>>>,
      \* https://www.peppercoin.com/pepper-inc
      url |->
          <<104, 116, 116, 112, 115, 58, 47, 47, 119, 119, 119, 46, 112, 101,
            112, 112, 101, 114, 99, 111, 105, 110, 46, 99, 111, 109, 47, 112,
            101, 112, 112, 101, 114, 45, 105, 110, 99>>,
      label |-> <<80, 101, 112, 112, 101, 114, 32, 73, 110, 99, 32, 40, 71, 111, 118, 101, 114, 110, 97, 110, 99, 101, 41>>],
     [key |-> "fanx",
      \* fanx, dex, swap, trade, buy, exchange, buy pepper, all links, all the links, links
      triggers |->
          <<<<102, 97, 110, 120>>, <<100, 101, 120>>, <<115, 119, 97, 112>>,
            <<116, 114, 97, 100, 101>>, <<98, 117, 121>>, <<101, 120, 99, 104,
            97, 110, 103, 101>>, <<98, 117, 121, 32, 112, 101, 112, 112, 101,
            114>>, <<97, 108, 108, 32, 108, 105, 110, 107, 115>>, <<97, 108,
            108, 32, 116, 104, 101, 32, 108, 105, 110, 107, 115>>, <<108, 105,
            110, 107, 115>>>>,
      \* https://app.fanx.xyz
      url |->
          <<104, 116, 116, 112, 115, 58, 47, 47, 97, 112, 112, 46, 102, 97,
            110, 120, 46, 120, 121, 122>>,
      label |-> <<70, 97, 110, 88, 32, 68, 69, 88>>],
     [key |-> "explorer",
      \* explorer, chiliscan, scan, contract, verify, block, all links, all the links, links
      triggers |->
          <<<<101, 120, 112, 108, 111, 114, 101, 114>>, <<99, 104, 105, 108,
            105, 115, 99, 97, 110>>, <<115, 99, 97, 110>>, <<99, 111, 110,
            116, 114, 97, 99, 116>>, <<118, 101, 114, 105, 102, 121>>, <<98,
            108, 111, 99, 107>>, <<97, 108, 108, 32, 108, 105, 110, 107,
            115>>, <<97, 108, 108, 32, 116, 104, 101, 32, 108, 105, 110, 107,
            115>>, <<108, 105, 110, 107, 115>>>>,
      \* https://chiliscan.com
      url |->
          <<104, 116, 116, 112, 115, 58, 47, 47, 99, 104, 105, 108, 105, 115,
            99, 97, 110, 46, 99, 111, 109>>,
      label |-> <<67, 104, 105, 108, 105, 115, 99, 97, 110, 32, 69, 120, 112, 108, 111, 114, 101, 114>>],
     [key |-> "chiliz",
      \* chiliz chain, chiliz, chz, network
      triggers |->
          <<<<99, 104, 105, 108, 105, 122, 32, 99, 104, 97, 105, 110>>, <<99,
            104, 105, 108, 105, 122>>, <<99, 104, 122>>, <<110, 101, 116, 119,
            111, 114, 107>>>>,
      \* https://www.chiliz.com
      url |->
          <<104, 116, 116, 112, 115, 58, 47, 47, 119, 119, 119, 46, 99, 104,
            105, 108, 105, 122, 46, 99, 111, 109>>,
      label |-> <<67, 104, 105, 108, 105, 122, 32, 67, 104, 97, 105, 110>>]
    >>

Bullet == <<226, 8364, 162>>    \* the three characters the source has for the bullet
Blank == OneOf({32, 9})
Spaces == Star(OneOf(WhiteSpace))
AlphaNumeric == (48..57) \cup (65..90) \cup (97..122)

\* (match) => match.replace(/```\w*\n?/g, '').trim() on a match of
\* /```[^`]+```/: the two fences go, and after the first the word characters
\* and one line feed.
StripFence(match) ==
    LET DropNewline(s) == IF s # << >> /\ Head(s) = 10 THEN Tail(s) ELSE s
        DropWord(s) ==
            SubSeq(s, Len(SelectSeq([i \in 1..Len(s) |->
                                        \A j \in 1..i : s[j] \in WordChars],
                                    LAMBDA b : b)) + 1, Len(s))
    IN  Trim(DropNewline(DropWord(SubSeq(match, 4, Len(match) - 3))))

\* .replace(/```[^`]+```/g, (match) => ...)
RECURSIVE StripFences(_, _)
StripFences(text, i) ==
    LET fence == Cat(<<Lit(<<96, 96, 96>>), Plus(NoneOf({96})), Lit(<<96, 96, 96>>)>>)
        At(start) ==
            LET Taken(end) ==
                    StripFence(SubSeq(text, start, end - 1)) \o StripFences(text, end)
            IN  SubSeq(text, i, start - 1)
                    \o Taken(CHOOSE e \in Ends(fence, text, start) : TRUE)
        From(starts) ==
            IF starts = {} THEN SubSeq(text, i, Len(text))
            ELSE At(CHOOSE j \in starts : \A k \in starts : j <= k)
    IN  From({j \in i..Len(text) : Ends(fence, text, j) # {}})

\* The replacements of stripMarkdown, each with the flag g, in their order
\* but for the code blocks, which come between the fourth and the fifth.
MarkdownEmphasis ==
    <<\* /\*\*([^*]+)\*\*/g, '$1'
      [pattern |-> Cat(<<Lit(<<42, 42>>), Plus(NoneOf({42})), Lit(<<42, 42>>)>>), sub |-> Inner(2, 2)],
      \* /\*([^*]+)\*/g, '$1'
      [pattern |-> Cat(<<Lit(<<42>>), Plus(NoneOf({42})), Lit(<<42>>)>>), sub |-> Inner(1, 1)],
      \* /__([^_]+)__/g, '$1'
      [pattern |-> Cat(<<Lit(<<95, 95>>), Plus(NoneOf({95})), Lit(<<95, 95>>)>>), sub |-> Inner(2, 2)],
      \* /_([^_]+)_/g, '$1'
      [pattern |-> Cat(<<Lit(<<95>>), Plus(NoneOf({95})), Lit(<<95>>)>>), sub |-> Inner(1, 1)]>>

MarkdownRest ==
    <<\* /`([^`]+)`/g, '$1'
      [pattern |-> Cat(<<Lit(<<96>>), Plus(NoneOf({96})), Lit(<<96>>)>>), sub |-> Inner(1, 1)],
      \* /^#{1,6}\s+/gm, ''
      [pattern |-> Cat(<<LineStart, Lit(<<35>>), Opt(Cat(<<Lit(<<35>>), Opt(Cat(<<Lit(<<35>>),
                         Opt(Cat(<<Lit(<<35>>), Opt(Cat(<<Lit(<<35>>), Opt(Lit(<<35>>))>>))>>))>>))>>)),
                         Plus(OneOf(WhiteSpace))>>),
       sub |-> Put(<< >>)],
      \* /^[-*+]\s+/gm, the bullet and a space
      [pattern |-> Cat(<<LineStart, OneOf({45, 42, 43}), Plus(OneOf(WhiteSpace))>>),
       sub |-> Put(Bullet \o <<32>>)],
      \* /\[([^\]]+)\]\([^)]*\)/g, '$1'
      [pattern |-> Cat(<<Lit(<<91>>), Plus(NoneOf({93})), Lit(<<93, 40>>), Star(NoneOf({41})), Lit(<<41>>)>>),
       sub |-> Before(1, 93)],
      \* /\[([^\]]+)\]\(/g, '$1'
      [pattern |-> Cat(<<Lit(<<91>>), Plus(NoneOf({93})), Lit(<<93, 40>>)>>), sub |-> Inner(1, 2)],
      \* /\[([^\]]+)\]/g, '$1'
      [pattern |-> Cat(<<Lit(<<91>>), Plus(NoneOf({93})), Lit(<<93>>)>>), sub |-> Inner(1, 1)],
      \* /!\[([^\]]*)\]\([^)]+\)/g, ''
      [pattern |-> Cat(<<Lit(<<33, 91>>), Star(NoneOf({93})), Lit(<<93, 40>>), Plus(NoneOf({41})), Lit(<<41>>)>>),
       sub |-> Put(<< >>)],
      \* /~~([^~]+)~~/g, '$1'
      [pattern |-> Cat(<<Lit(<<126, 126>>), Plus(NoneOf({126})), Lit(<<126, 126>>)>>), sub |-> Inner(2, 2)],
      \* /^[-*_]{3,}$/gm, ''
      [pattern |-> Cat(<<LineStart, OneOf({45, 42, 95}), OneOf({45, 42, 95}),
                         Plus(OneOf({45, 42, 95})), LineEnd>>),
       sub |-> Put(<< >>)],
      \* /^>\s*/gm, ''
      [pattern |-> Cat(<<LineStart, Lit(<<62>>), Spaces>>), sub |-> Put(<< >>)]>>

\* The replacements one after the other, each on the result of the one
\* before.
RECURSIVE ReplaceEach(_, _, _)
ReplaceEach(steps, k, text) ==
    IF Len(text) >= 0 /\ k > Len(steps) THEN text
    ELSE ReplaceEach(steps, k + 1,
                     IF steps[k].ignoreCase
                     THEN ReplaceAllIgnoreCase(steps[k].pattern, steps[k].sub, text)
                     ELSE ReplaceAll(steps[k].pattern, steps[k].sub, text))

CaseSensitive(steps) ==
    [k \in 1..Len(steps) |->
        [pattern |-> steps[k].pattern, sub |-> steps[k].sub, ignoreCase |-> FALSE]]

IgnoreCase(steps) ==
    [k \in 1..Len(steps) |->
        [pattern |-> steps[k].pattern, sub |-> steps[k].sub, ignoreCase |-> TRUE]]

stripMarkdown(text) ==
    ReplaceEach(CaseSensitive(MarkdownRest), 1,
                StripFences(ReplaceEach(CaseSensitive(MarkdownEmphasis), 1, text), 1))

\* The replacements of stripAllUrls with the flags gi or gim; the patterns
\* are matched against the text in lower case.
UrlPatterns ==
    <<\* /https?:\/\/[^\s<>]+/gi
      [pattern |-> Cat(<<Lit(<<104, 116, 116, 112>>), Opt(Lit(<<115>>)), Lit(<<58, 47, 47>>),
                         Plus(NoneOf(WhiteSpace \cup {60, 62}))>>),
       sub |-> Put(<< >>)],
      \* /www\.[a-zA-Z0-9][^\s<>]*/gi
      [pattern |-> Cat(<<Lit(<<119, 119, 119, 46>>), OneOf(AlphaNumeric),
                         Star(NoneOf(WhiteSpace \cup {60, 62}))>>),
       sub |-> Put(<< >>)],
      \* /[a-zA-Z0-9_-]+\.[a-zA-Z0-9_-]+\.(com|org|net|io|xyz|me|co|chain|tv|gg|app)[^\s]*/gi
      [pattern |-> Cat(<<Plus(OneOf(AlphaNumeric \cup {95, 45})), Lit(<<46>>),
                         Plus(OneOf(AlphaNumeric \cup {95, 45})), Lit(<<46>>),
                         Alt(<<Lit(<<99, 111, 109>>), Lit(<<111, 114, 103>>), Lit(<<110, 101, 116>>), Lit(<<105, 111>>), Lit(<<120, 121, 122>>), Lit(<<109, 101>>), Lit(<<99, 111>>), Lit(<<99, 104, 97, 105, 110>>), Lit(<<116, 118>>), Lit(<<103, 103>>), Lit(<<97, 112, 112>>)>>),
                         Star(NoneOf(WhiteSpace))>>),
       sub |-> Put(<< >>)],
      \* /[a-zA-Z0-9_-]+\.(com|org|net|io|xyz|me|co|chain|tv|gg|app)[^\s]*/gi
      [pattern |-> Cat(<<Plus(OneOf(AlphaNumeric \cup {95, 45})), Lit(<<46>>),
                         Alt(<<Lit(<<99, 111, 109>>), Lit(<<111, 114, 103>>), Lit(<<110, 101, 116>>), Lit(<<105, 111>>), Lit(<<120, 121, 122>>), Lit(<<109, 101>>), Lit(<<99, 111>>), Lit(<<99, 104, 97, 105, 110>>), Lit(<<116, 118>>), Lit(<<103, 103>>), Lit(<<97, 112, 112>>)>>),
                         Star(NoneOf(WhiteSpace))>>),
       sub |-> Put(<< >>)],
      \* /\b(app|www|t|m|api|docs)\.(\s*$|\s*\n)/gim, '$2'
      [pattern |-> Cat(<<WordBoundary,
                         Alt(<<Lit(<<97, 112, 112>>), Lit(<<119, 119, 119>>), Lit(<<116>>), Lit(<<109>>), Lit(<<97, 112, 105>>), Lit(<<100, 111, 99, 115>>)>>),
                         Lit(<<46>>),
                         Alt(<<Cat(<<Spaces, LineEnd>>), Cat(<<Spaces, <<"lit", <<10>>>>>>)>>)>>),
       sub |-> After(46)],
      \* /@[a-zA-Z0-9_]+\s*(Telegram|Twitter|X|on\s+X)?\s*(?=\n|$|\.)/gi
      [pattern |-> Cat(<<Lit(<<64>>), Plus(OneOf(WordChars)), Spaces,
                         Opt(Alt(<<Lit(<<116, 101, 108, 101, 103, 114, 97, 109>>), Lit(<<116, 119, 105, 116, 116, 101, 114>>), Lit(<<120>>),
                                   Cat(<<Lit(<<111, 110>>), Plus(OneOf(WhiteSpace)), Lit(<<120>>)>>)>>)),
                         Spaces, Ahead(Alt(<<<<"lit", <<10>>>>, EndOfText, Lit(<<46>>)>>))>>),
       sub |-> Put(<< >>)]>>

\* The replacements of stripAllUrls with the flags g or gm.
UrlLeftovers ==
    <<\* /\(\s*\)/g
      [pattern |-> Cat(<<Lit(<<40>>), Spaces, Lit(<<41>>)>>), sub |-> Put(<< >>)],
      \* /\[\s*\]/g
      [pattern |-> Cat(<<Lit(<<91>>), Spaces, Lit(<<93>>)>>), sub |-> Put(<< >>)],
      \* /:\s*$/gm
      [pattern |-> Cat(<<Lit(<<58>>), Spaces, LineEnd>>), sub |-> Put(<< >>)],
      \* /[ \t]{2,}/g, ' '
      [pattern |-> Cat(<<Blank, Plus(Blank)>>), sub |-> Put(<<32>>)],
      \* /^\d+\.\s*$/gm
      [pattern |-> Cat(<<LineStart, Plus(OneOf(Digits)), Lit(<<46>>), Spaces, LineEnd>>),
       sub |-> Put(<< >>)],
      \* /^(the bullet)\s*$/gm
      [pattern |-> Cat(<<LineStart, <<"lit", Bullet>>, Spaces, LineEnd>>),
       sub |-> Put(<< >>)]>>

\* ... .replace(/^\n+/, '').replace(/\n+$/, '').trim()
stripAllUrls(text) ==
    Trim(ReplaceFirst(Cat(<<Plus(<<"lit", <<10>>>>), EndOfText>>), Put(<< >>),
           ReplaceFirst(Cat(<<StartOfText, Plus(<<"lit", <<10>>>>)>>), Put(<< >>),
             ReplaceEach(CaseSensitive(UrlLeftovers), 1,
               ReplaceEach(IgnoreCase(UrlPatterns), 1, text)))))

cleanWhitespace(text) ==
    LET steps ==
            <<\* /\r\n/g, '\n'
              [pattern |-> <<"lit", <<13, 10>>>>, sub |-> Put(<<10>>)],
              \* /\r/g, '\n'
              [pattern |-> <<"lit", <<13>>>>, sub |-> Put(<<10>>)],
              \* /\n{3,}/g, '\n\n'
              [pattern |-> Cat(<<<<"lit", <<10, 10, 10>>>>, Star(<<"lit", <<10>>>>)>>),
               sub |-> Put(<<10, 10>>)],
              \* /[ \t]{2,}/g, ' '
              [pattern |-> Cat(<<Blank, Plus(Blank)>>), sub |-> Put(<<32>>)],
              \* /^\s+$/gm, ''
              [pattern |-> Cat(<<LineStart, Plus(OneOf(WhiteSpace)), LineEnd>>),
               sub |-> Put(<< >>)]>>
    IN  Trim(ReplaceEach(CaseSensitive(steps), 1, text))

\* for (const [key, triggers] of Object.entries(LINK_TRIGGERS)): the links
\* with a trigger the query includes, in the order of the keys.  No two keys
\* of LINK_TRIGGERS have the same url, so seen keeps nothing out.
detectRelevantLinks(query) ==
    SelectSeq(LINK_TRIGGERS,
              LAMBDA link : \E k \in 1..Len(link.triggers) :
                                includes(ToLowerCase(query), link.triggers[k]))

RECURSIVE LinkLines(_, _)
LinkLines(links, k) ==
    IF k > Len(links) THEN << >>
    ELSE links[k].label \o <<58, 32>> \o links[k].url \o <<10>> \o LinkLines(links, k + 1)

appendVerifiedLinks(text, links) ==
    IF Len(links) = 0 THEN text
    ELSE Trim(Trim(text) \o <<10, 10>> \o LinkLines(links, 1))

format(text, query) ==
    LET Linked(formatted, relevantLinks) ==
            IF Len(relevantLinks) > 0 THEN appendVerifiedLinks(formatted, relevantLinks)
            ELSE formatted
    IN  Trim(Linked(cleanWhitespace(stripAllUrls(stripMarkdown(text))),
                    detectRelevantLinks(query)))

----------------------------------------------------------------------------
(* format applied to its own result *)

MaxFormats == 2

\* Pepper is a fan token.
FormatText_plain ==
    <<80, 101, 112, 112, 101, 114, 32, 105, 115, 32, 97, 32, 102, 97, 110, 32,
      116, 111, 107, 101, 110, 46>>

\* **Pepper** is _great_ and `fast`.
FormatText_bold ==
    <<42, 42, 80, 101, 112, 112, 101, 114, 42, 42, 32, 105, 115, 32, 95, 103,
      114, 101, 97, 116, 95, 32, 97, 110, 100, 32, 96, 102, 97, 115, 116, 96,
      46>>

\* Visit https://www.peppercoin.com now.
FormatText_url ==
    <<86, 105, 115, 105, 116, 32, 104, 116, 116, 112, 115, 58, 47, 47, 119,
      119, 119, 46, 112, 101, 112, 112, 101, 114, 99, 111, 105, 110, 46, 99,
      111, 109, 32, 110, 111, 119, 46>>

\* See [the site](https://x.io/a) here
FormatText_mdLink ==
    <<83, 101, 101, 32, 91, 116, 104, 101, 32, 115, 105, 116, 101, 93, 40,
      104, 116, 116, 112, 115, 58, 47, 47, 120, 46, 105, 111, 47, 97, 41, 32,
      104, 101, 114, 101>>

\* - item one\n* item two
FormatText_list ==
    <<45, 32, 105, 116, 101, 109, 32, 111, 110, 101, 10, 42, 32, 105, 116,
      101, 109, 32, 116, 119, 111>>

\* ## Title\n\n\n\nBody  text\r\n> quote
FormatText_header ==
    <<35, 35, 32, 84, 105, 116, 108, 101, 10, 10, 10, 10, 66, 111, 100, 121,
      32, 32, 116, 101, 120, 116, 13, 10, 62, 32, 113, 117, 111, 116, 101>>

\* Trade on app.fanx.xyz today
FormatText_domain ==
    <<84, 114, 97, 100, 101, 32, 111, 110, 32, 97, 112, 112, 46, 102, 97, 110,
      120, 46, 120, 121, 122, 32, 116, 111, 100, 97, 121>>

\* Follow @PepperChain on X.
FormatText_handle ==
    <<70, 111, 108, 108, 111, 119, 32, 64, 80, 101, 112, 112, 101, 114, 67,
      104, 97, 105, 110, 32, 111, 110, 32, 88, 46>>

\* Steps:\n1. \n2. Go
FormatText_steps ==
    <<83, 116, 101, 112, 115, 58, 10, 49, 46, 32, 10, 50, 46, 32, 71, 111>>

\* ```js\nrun()```
FormatText_fence ==
    <<96, 96, 96, 106, 115, 10, 114, 117, 110, 40, 41, 96, 96, 96>>

\* Official Website: https://www.peppercoin.com
FormatText_label ==
    <<79, 102, 102, 105, 99, 105, 97, 108, 32, 87, 101, 98, 115, 105, 116,
      101, 58, 32, 104, 116, 116, 112, 115, 58, 47, 47, 119, 119, 119, 46,
      112, 101, 112, 112, 101, 114, 99, 111, 105, 110, 46, 99, 111, 109>>

\* ***Pepper***
FormatText_stars ==
    <<42, 42, 42, 80, 101, 112, 112, 101, 114, 42, 42, 42>>

\* Visit https://evil.example/x for info
FormatText_otherSite ==
    <<86, 105, 115, 105, 116, 32, 104, 116, 116, 112, 115, 58, 47, 47, 101,
      118, 105, 108, 46, 101, 120, 97, 109, 112, 108, 101, 47, 120, 32, 102,
      111, 114, 32, 105, 110, 102, 111>>

\* Mirror: ftp://evil.example/x today
FormatText_ftp ==
    <<77, 105, 114, 114, 111, 114, 58, 32, 102, 116, 112, 58, 47, 47, 101,
      118, 105, 108, 46, 101, 120, 97, 109, 112, 108, 101, 47, 120, 32, 116,
      111, 100, 97, 121>>

\* Go to ht()tp://evil.example/x now
FormatText_brackets ==
    <<71, 111, 32, 116, 111, 32, 104, 116, 40, 41, 116, 112, 58, 47, 47, 101,
      118, 105, 108, 46, 101, 120, 97, 109, 112, 108, 101, 47, 120, 32, 110,
      111, 119>>

\* what is pepper
FormatQuery_none ==
    <<119, 104, 97, 116, 32, 105, 115, 32, 112, 101, 112, 112, 101, 114>>

\* what is the website
FormatQuery_website ==
    <<119, 104, 97, 116, 32, 105, 115, 32, 116, 104, 101, 32, 119, 101, 98,
      115, 105, 116, 101>>

\* all links
FormatQuery_links ==
    <<97, 108, 108, 32, 108, 105, 110, 107, 115>>

\* how to buy
FormatQuery_buy ==
    <<104, 111, 119, 32, 116, 111, 32, 98, 117, 121>>

\* CHILIZ network
FormatQuery_chiliz ==
    <<67, 72, 73, 76, 73, 90, 32, 110, 101, 116, 119, 111, 114, 107>>

FormatTexts ==
    {FormatText_plain,
     FormatText_bold,
     FormatText_url,
     FormatText_mdLink,
     FormatText_list,
     FormatText_header,
     FormatText_domain,
     FormatText_handle,
     FormatText_steps,
     FormatText_fence,
     FormatText_label,
     FormatText_stars,
     FormatText_otherSite,
     FormatText_ftp,
     FormatText_brackets}

FormatQueries ==
    {FormatQuery_none,
     FormatQuery_website,
     FormatQuery_links,
     FormatQuery_buy,
     FormatQuery_chiliz}

FormatInputs == FormatTexts \X FormatQueries

formatOnce == [input \in FormatInputs |-> format(input[1], input[2])]
formatTwice == [input \in FormatInputs |-> format(formatOnce[input], input[2])]

Composed(input) == [op |-> "composed", input |-> input, result |-> NoCall]

\* The next response text is ready for a query.
composed(input) ==
    /\ applied.op # "composed"
    /\ applications < MaxFormats
    /\ applied' = Composed(input)
    /\ applications' = applications + 1
    /\ OnlyPure

formatCalled ==
    /\ applied.op = "composed"
    /\ applied' = [op |-> "format", input |-> applied.input,
                   result |-> [once |-> formatOnce[applied.input], twice |-> << >>]]
    /\ UNCHANGED applications
    /\ OnlyPure

\* format is called with the text it returned and the same query.
formatCalledAgain ==
    /\ applied.op = "format"
    /\ applied' = [op |-> "formatAgain", input |-> applied.input,
                   result |-> [once |-> applied.result.once,
                               twice |-> formatTwice[applied.input]]]
    /\ UNCHANGED applications
    /\ OnlyPure

InitFormat ==
    /\ now = 0
    /\ IdleRate
    /\ IdleCache
    /\ IdleDup
    /\ IdlePipe
    /\ IdleBot
    /\ IdleFetch
    /\ IdleLoader
    /\ IdleHandlers
    /\ applied \in {Composed(input) : input \in FormatInputs}
    /\ applications = 0

NextFormat ==
    \/ \E input \in FormatInputs : composed(input)
    \/ formatCalled
    \/ formatCalledAgain

SpecFormat == InitFormat /\ [][NextFormat]_vars

----------------------------------------------------------------------------
(* normalizeKey and the normalization of simpleHash applied to their own
   results *)

\* const normalized = text.toLowerCase().trim().replace(/\s+/g, ' ')
normalized(text) == CollapseWhitespace(Trim(ToLowerCase(text)))

MaxQueryLen == 3
MaxNormalizations == 2

\* a  A  space  tab  ?
QueryChars == {97, 65, 32, 9, 63}

NormalizeQueries == UNION {[1..n -> QueryChars] : n \in 0..MaxQueryLen}

Asked(query) == [op |-> "asked", input |-> query, result |-> NoCall]

\* The next query arrives.
asked(query) ==
    /\ applied.op # "asked"
    /\ applications < MaxNormalizations
    /\ applied' = Asked(query)
    /\ applications' = applications + 1
    /\ OnlyPure

normalizeKeyCalled ==
    /\ applied.op = "asked"
    /\ applied' = [op |-> "normalizeKey", input |-> applied.input,
                   result |-> [once |-> normalizeKey(applied.input), twice |-> << >>]]
    /\ UNCHANGED applications
    /\ OnlyPure

\* normalizeKey is called with the key it returned.
normalizeKeyCalledAgain ==
    /\ applied.op = "normalizeKey"
    /\ applied' = [op |-> "normalizeKeyAgain", input |-> applied.input,
                   result |-> [once |-> applied.result.once,
                               twice |-> normalizeKey(applied.result.once)]]
    /\ UNCHANGED applications
    /\ OnlyPure

simpleHashNormalized ==
    /\ applied.op = "asked"
    /\ applied' = [op |-> "normalized", input |-> applied.input,
                   result |-> [once |-> normalized(applied.input), twice |-> << >>]]
    /\ UNCHANGED applications
    /\ OnlyPure

\* The normalization of simpleHash is applied to the text it returned.
simpleHashNormalizedAgain ==
    /\ applied.op = "normalized"
    /\ applied' = [op |-> "normalizedAgain", input |-> applied.input,
                   result |-> [once |-> applied.result.once,
                               twice |-> normalized(applied.result.once)]]
    /\ UNCHANGED applications
    /\ OnlyPure

InitNormalize ==
    /\ now = 0
    /\ IdleRate
    /\ IdleCache
    /\ IdleDup
    /\ IdlePipe
    /\ IdleBot
    /\ IdleFetch
    /\ IdleLoader
    /\ IdleHandlers
    /\ applied \in {Asked(query) : query \in NormalizeQueries}
    /\ applications = 0

NextNormalize ==
    \/ \E query \in NormalizeQueries : asked(query)
    \/ normalizeKeyCalled
    \/ normalizeKeyCalledAgain
    \/ simpleHashNormalized
    \/ simpleHashNormalizedAgain

SpecNormalize == InitNormalize /\ [][NextNormalize]_vars

----------------------------------------------------------------------------
(* pipeline/index.js *)

Range(s) == {s[k] : k \in 1..Len(s)}

\* Every text generate can return in the model.
PipeTexts ==
    Range(GREETING_TEMPLATES) \cup Range(CLOSING_TEMPLATES)
    \cup UNION {Range(REFUSAL_TEMPLATES[i]) : i \in DOMAIN REFUSAL_TEMPLATES}
    \cup {FACTUAL_TEMPLATES[k].response : k \in 1..Len(FACTUAL_TEMPLATES)}
    \cup AITexts

validations == [text \in PipeTexts |-> validate(text)]

Stages == <<"checkForbidden", "classify", "plan", "generate", "validate", "format">>
NoFault == "none"
Faults == {NoFault} \cup Range(Stages)

\* The stages process has called when it is in stage number n.
CallsUpTo(n) == SubSeq(Stages, 1, n)

\* I apologize, but I had trouble with that response. Could you rephrase your question?
ValidationFallbackText ==
    <<73, 32, 97, 112, 111, 108, 111, 103, 105, 122, 101, 44, 32, 98, 117,
      116, 32, 73, 32, 104, 97, 100, 32, 116, 114, 111, 117, 98, 108, 101, 32,
      119, 105, 116, 104, 32, 116, 104, 97, 116, 32, 114, 101, 115, 112, 111,
      110, 115, 101, 46, 32, 67, 111, 117, 108, 100, 32, 121, 111, 117, 32,
      114, 101, 112, 104, 114, 97, 115, 101, 32, 121, 111, 117, 114, 32, 113,
      117, 101, 115, 116, 105, 111, 110, 63>>

\* Sorry, I encountered an issue. Please try again or type /start to restart.
PipelineErrorText ==
    <<83, 111, 114, 114, 121, 44, 32, 73, 32, 101, 110, 99, 111, 117, 110,
      116, 101, 114, 101, 100, 32, 97, 110, 32, 105, 115, 115, 117, 101, 46,
      32, 80, 108, 101, 97, 115, 101, 32, 116, 114, 121, 32, 97, 103, 97, 105,
      110, 32, 111, 114, 32, 116, 121, 112, 101, 32, 47, 115, 116, 97, 114,
      116, 32, 116, 111, 32, 114, 101, 115, 116, 97, 114, 116, 46>>

NoResponse == GeneratedResponse(<< >>, 0, FALSE, FALSE)

\* The size of the pool the random index of a run is drawn from: the refusal
\* pool of the short circuit, or the pool generateFromTemplate draws from.
PoolSize(messageText, fault) ==
    LET Size(forbiddenCheck, responsePlan) ==
            IF fault = "checkForbidden" THEN 1
            ELSE IF forbiddenCheck.isForbidden
            THEN Len(RefusalPool(forbiddenCheck.intent))
            ELSE IF fault \in {"classify", "plan", "generate"} THEN 1
            ELSE IF responsePlan.strategy = "template"
            THEN Len(TemplatePool(responsePlan.responseClass, messageText))
            ELSE 1
    IN  Size(forbiddenChecks[messageText], plan(classifications[messageText]))

poolSizes == [messageText \in PipeQueries, fault \in Faults |-> PoolSize(messageText, fault)]

\* The messages that generate answers from the cache or the remote model,
\* and those it reads the cache for.
ReachesAI(messageText) ==
    /\ ~forbiddenChecks[messageText].isForbidden
    /\ \E strategy \in {plan(classifications[messageText]).strategy} :
           \/ strategy = "generate"
           \/ strategy = "cache" /\ factualMatches[messageText] = NoTemplate

aiQueries == {messageText \in PipeQueries : ReachesAI(messageText)}

ReadsCache(messageText) ==
    /\ messageText \in aiQueries
    /\ plan(classifications[messageText]).strategy = "cache"

cacheQueries == {messageText \in PipeQueries : ReadsCache(messageText)}

\* The body of the try block of process.  `fault` names the stage that
\* throws an Error in this run, if the run gets to it.  A stage that throws
\* does so before it has changed anything.
PipelineBody(messageText, fault, c, t, reply, pick, latency, knowledge) ==
    LET Early(thrown, message, n) ==
            [thrown |-> thrown, message |-> message, formatted |-> FALSE,
             calls |-> CallsUpTo(n), generated |-> NoResponse, cache |-> c,
             cacheOps |-> << >>, remote |-> NoReply, remoteCalls |-> 0,
             elapsed |-> 0]
        Late(gen, thrown, message, formatted, n) ==
            [thrown |-> thrown, message |-> message, formatted |-> formatted,
             calls |-> CallsUpTo(n), generated |-> gen.response,
             cache |-> gen.cache, cacheOps |-> gen.cacheOps,
             remote |-> gen.remote, remoteCalls |-> gen.remoteCalls,
             elapsed |-> gen.elapsed]
        Validated(gen, validated) ==
            IF fault = "validate" THEN Late(gen, TRUE, << >>, FALSE, 5)
            ELSE IF ~validated.valid
            THEN Late(gen, FALSE, ValidationFallbackText, FALSE, 5)
            ELSE IF gen.response.fromTemplate
            THEN Late(gen, FALSE, validated.text, FALSE, 5)
            ELSE IF fault = "format" THEN Late(gen, TRUE, << >>, FALSE, 6)
            ELSE Late(gen, FALSE, validated.text, TRUE, 6)
        Checked(forbiddenCheck, gen) ==
            IF fault = "checkForbidden" THEN Early(TRUE, << >>, 1)
            ELSE IF forbiddenCheck.isForbidden
            THEN Early(FALSE, getRefusal(forbiddenCheck.intent, pick), 1)
            ELSE IF fault = "classify" THEN Early(TRUE, << >>, 2)
            ELSE IF fault = "plan" THEN Early(TRUE, << >>, 3)
            ELSE IF fault = "generate" THEN Early(TRUE, << >>, 4)
            ELSE Validated(gen, validations[gen.response.text])
    IN  Checked(forbiddenChecks[messageText],
                generate(plan(classifications[messageText]), messageText, c, t,
                         reply, pick, latency, knowledge))

\* message is the text delivered; formatted tells that it is the result of
\* format(text, query) on that text rather than the text itself.
createDeliveryPlan(message, formatted, processingTimeMs) ==
    [message |-> message, formatted |-> formatted,
     parseMode |-> "null", processingTimeMs |-> processingTimeMs]

NoPlan == createDeliveryPlan(<< >>, FALSE, 0)

\* try { ... } catch (error) { ... }: what process returns, and whether the
\* promise it returns is rejected.
ProcessOutcome_formatUncaught(body) ==
    IF body.thrown /\ body.calls = CallsUpTo(6)
    THEN [rejected |-> TRUE, plan |-> NoPlan]
    ELSE IF body.thrown
    THEN [rejected |-> FALSE,
          plan |-> createDeliveryPlan(PipelineErrorText, FALSE, body.elapsed)]
    ELSE [rejected |-> FALSE,
          plan |-> createDeliveryPlan(body.message, body.formatted, body.elapsed)]

ProcessOutcome(body) ==
    IF body.thrown
    THEN [rejected |-> FALSE,
          plan |-> createDeliveryPlan(PipelineErrorText, FALSE, body.elapsed)]
    ELSE [rejected |-> FALSE,
          plan |-> createDeliveryPlan(body.message, body.formatted, body.elapsed)]

process(messageText, fault, reply, pick, latency) ==
    \E body \in {PipelineBody(messageText, fault, cache, now, reply, pick,
                              latency, knowledgeAvailable)} :
        \E outcome \in {ProcessOutcome(body)} :
            /\ pipeRuns < MaxPipeRuns
            /\ pipeLast = NoCall
            /\ now + body.elapsed <= MaxTime
            /\ pipeRuns' = pipeRuns + 1
            /\ now' = now + body.elapsed
            /\ cache' = body.cache
            /\ pipeLast' = [op |-> "process", messageText |-> messageText,
                            forbidden |-> IF fault = "checkForbidden" THEN NoIntent
                                          ELSE forbiddenChecks[messageText].intent,
                            calls |-> body.calls, thrown |-> body.thrown,
                            generated |-> body.generated,
                            cacheOps |-> body.cacheOps,
                            remote |-> body.remote,
                            remoteCalls |-> body.remoteCalls,
                            rejected |-> outcome.rejected, plan |-> outcome.plan]
            /\ UNCHANGED <<cacheLast, cacheCalls, lastSet, knowledgeAvailable>>
            /\ OnlyPipe

\* await process(ctx) resumes in the caller, which takes the delivery plan:
\* the run is over.
processReturns ==
    /\ pipeLast # NoCall
    /\ pipeLast' = NoCall
    /\ UNCHANGED <<now, cacheVars, knowledgeAvailable, pipeRuns>>
    /\ OnlyPipe

\* The inputs of a run that the run reads: a random index when it draws from
\* a pool, a reply when it calls the remote model.
CallsRemote(messageText, fault) ==
    /\ fault \notin {"checkForbidden", "classify", "plan", "generate"}
    /\ messageText \in aiQueries
    /\ knowledgeAvailable
    /\ messageText \in cacheQueries => ~CacheGetResult(cache, messageText, now).hit

InitPipe ==
    /\ now = 0
    /\ IdleRate
    /\ IdleCache
    /\ IdleDup
    /\ knowledgeAvailable \in BOOLEAN
    /\ pipeLast = NoCall
    /\ pipeRuns = 0
    /\ IdleBot
    /\ IdleFetch
    /\ IdleLoader
    /\ IdleHandlers
    /\ IdlePure

NextPipe ==
    \/ (pipeLast = NoCall /\ Tick /\ UNCHANGED cacheVars /\ OnlyCache)
    \/ processReturns
    \/ /\ pipeRuns < MaxPipeRuns
       /\ pipeLast = NoCall
       /\ \E messageText \in PipeQueries, fault \in Faults :
              \E pick \in 1..poolSizes[messageText, fault],
                 remote \in BOOLEAN :
                  /\ remote = CallsRemote(messageText, fault)
                  /\ \E reply \in IF remote THEN RemoteReplies ELSE {NoReply},
                        latency \in IF remote THEN 0..MaxLatency ELSE {0} :
                         process(messageText, fault, reply, pick, latency)

SpecPipe == InitPipe /\ [][NextPipe]_vars

----------------------------------------------------------------------------
(* bot.js, admin/modes.js, middleware, handlers/pipelineHandler.js *)

\* PepperPal
botUsername ==
    <<80, 101, 112, 112, 101, 114, 80, 97, 108>>

\* start
Command_start ==
    <<115, 116, 97, 114, 116>>

\* ask
Command_ask ==
    <<97, 115, 107>>

\* mode
Command_mode ==
    <<109, 111, 100, 101>>

\* bot.command(name, handler): the commands createBot registers
RegisteredCommands ==
    {
     Command_start,  \* start
     <<104, 101, 108, 112>>,  \* help
     Command_ask,  \* ask
     <<100, 101, 98, 117, 103>>,  \* debug
     <<119, 101, 98, 115, 105, 116, 101>>,  \* website
     <<99, 111, 110, 116, 114, 97, 99, 116>>,  \* contract
     <<98, 117, 121>>,  \* buy
     <<115, 116, 97, 107, 101>>,  \* stake
     <<103, 111, 118, 101, 114, 110, 97, 110, 99, 101>>,  \* governance
     <<116, 119, 105, 116, 116, 101, 114>>,  \* twitter
     <<120>>,  \* x
     <<116, 101, 108, 101, 103, 114, 97, 109>>,  \* telegram
     <<99, 111, 105, 110, 103, 101, 99, 107, 111>>,  \* coingecko
     <<101, 120, 112, 108, 111, 114, 101, 114>>,  \* explorer
     <<99, 104, 97, 105, 110>>,  \* chain
     <<108, 105, 110, 107, 115>>,  \* links
     <<116, 111, 107, 101, 110, 111, 109, 105, 99, 115>>,  \* tokenomics
     <<99, 101, 120>>,  \* cex
     <<100, 101, 120>>,  \* dex
     <<104, 101, 97, 108, 116, 104>>,  \* health
     <<115, 116, 97, 116, 115>>,  \* stats
     Command_mode,  \* mode
     <<114, 101, 102, 114, 101, 115, 104, 95, 107, 110, 111, 119, 108, 101, 100, 103, 101>>,  \* refresh_knowledge
     <<107, 110, 111, 119, 108, 101, 100, 103, 101, 95, 115, 116, 97, 116, 117, 115>>  \* knowledge_status
    }

\* Texts of inbound messages
\* /report
BotText_report ==
    <<47, 114, 101, 112, 111, 114, 116>>

\* /start
BotText_start ==
    <<47, 115, 116, 97, 114, 116>>

\* /ask
BotText_ask ==
    <<47, 97, 115, 107>>

\* /ask what is pepper
BotText_askQuestion ==
    <<47, 97, 115, 107, 32, 119, 104, 97, 116, 32, 105, 115, 32, 112, 101,
      112, 112, 101, 114>>

\* @PepperPal
BotText_mentionOnly ==
    <<64, 80, 101, 112, 112, 101, 114, 80, 97, 108>>

\* /mode normal
BotText_modeNormal ==
    <<47, 109, 111, 100, 101, 32, 110, 111, 114, 109, 97, 108>>

\* /mode Silent
BotText_modeSilent ==
    <<47, 109, 111, 100, 101, 32, 83, 105, 108, 101, 110, 116>>

\* /mode maintenance
BotText_modeMaintenance ==
    <<47, 109, 111, 100, 101, 32, 109, 97, 105, 110, 116, 101, 110, 97, 110,
      99, 101>>

\* VALID_MODES, as texts
ModeTexts ==
    [normal |-> <<110, 111, 114, 109, 97, 108>>,
     silent |-> <<115, 105, 108, 101, 110, 116>>,
     maintenance |-> <<109, 97, 105, 110, 116, 101, 110, 97, 110, 99, 101>>]

\* Sorry, I could not generate a response.
HandlerFallbackText ==
    <<83, 111, 114, 114, 121, 44, 32, 73, 32, 99, 111, 117, 108, 100, 32, 110,
      111, 116, 32, 103, 101, 110, 101, 114, 97, 116, 101, 32, 97, 32, 114,
      101, 115, 112, 111, 110, 115, 101, 46>>

Slash == <<47>>
At == <<64>>
botMention == At \o botUsername       \* `@${config.botUsername}`

VALID_MODES == {"normal", "silent", "maintenance"}

\* ctx.from: absent, a person, a bot.
NoSender == [present |-> FALSE, id |-> NoUser, is_bot |-> FALSE]
Senders ==
    {NoSender, [present |-> TRUE, id |-> 1, is_bot |-> FALSE],
     [present |-> TRUE, id |-> 2, is_bot |-> TRUE]}

ChatTypes == {"private", "group"}
GroupChatId == 3

BotTexts ==
    {Query_whatIsPepper, Query_shouldIBuy, Query_mention, BotText_mentionOnly,
     BotText_report, BotText_start, BotText_ask, BotText_askQuestion,
     BotText_modeNormal, BotText_modeSilent, BotText_modeMaintenance}

\* The entities Telegram attaches to a text that begins with the mention.
EntitiesOf(text) ==
    IF startsWith(ToLowerCase(text), ToLowerCase(botMention))
    THEN <<[type |-> "mention", offset |-> 0, length |-> Len(botMention)]>>
    ELSE << >>

BotUpdates ==
    {[from |-> s, chatType |-> c, text |-> t, entities |-> EntitiesOf(t)] :
        s \in Senders, c \in ChatTypes, t \in BotTexts}

ChatIdOf(update) ==
    IF update.chatType = "private" THEN update.from.id ELSE GroupChatId

\* What the handlers of one update read besides the update: the stage of
\* process that throws, the reply of the remote model, the random index,
\* and whether the calls of ctx.reply fail.
BotFaults == {NoFault, "classify"}
BotReplies ==
    {[kind |-> "content", content |-> Content_answer, total_tokens |-> 12],
     [kind |-> "timeout", content |-> << >>, total_tokens |-> 0]}

\* One call of ctx.reply.
Reply(kind, message, delivered) ==
    [kind |-> kind, message |-> message, delivered |-> delivered]

\* new RegExp(`@${botUsername}\\b`, 'i').test(message.text)
isBotMentioned(text) ==
    test(Cat(<<Lit(ToLowerCase(botMention)), WordBoundary>>), ToLowerCase(text))

hasMentionEntity(text, entities) ==
    \E k \in 1..Len(entities) :
        /\ entities[k].type = "mention"
        /\ ToLowerCase(SubSeq(text, entities[k].offset + 1,
                              entities[k].offset + entities[k].length))
               = ToLowerCase(botMention)

\* mentionOnly lets the update through.
MentionOnlyPasses(update) ==
    \/ update.chatType = "private"
    \/ update.text # << >> /\ startsWith(update.text, Slash)
    \/ isBotMentioned(update.text)
    \/ hasMentionEntity(update.text, update.entities)

\* modeFilter: "next", "silent" (dropped) or "maintenance" (notice sent).
ModeFilterDecision(mode, update) ==
    IF mode = "silent" /\ update.chatType = "group" THEN "silent"
    ELSE IF mode = "maintenance" THEN "maintenance"
    ELSE "next"

\* The command of a text: what follows the slash, up to a space or an @.
RECURSIVE WordFrom(_, _)
WordFrom(text, k) ==
    IF k > Len(text) \/ IsSpace(text[k]) \/ text[k] = 64 THEN << >>
    ELSE <<text[k]>> \o WordFrom(text, k + 1)

CommandName(text) == IF startsWith(text, Slash) THEN WordFrom(text, 2) ELSE << >>

\* text.replace(new RegExp(part, 'gi'), '')
RECURSIVE RemoveAll(_, _)
RemoveAll(text, part) ==
    IF text = << >> THEN << >>
    ELSE IF startsWith(ToLowerCase(text), ToLowerCase(part))
    THEN RemoveAll(SubSeq(text, Len(part) + 1, Len(text)), part)
    ELSE <<Head(text)>> \o RemoveAll(Tail(text), part)

\* text.split(/\s+/)
RECURSIVE SplitSpaces(_, _)
SplitSpaces(text, word) ==
    IF text = << >> THEN <<word>>
    ELSE IF IsSpace(Head(text)) THEN <<word>> \o SplitSpaces(TrimStart(text), << >>)
    ELSE SplitSpaces(Tail(text), Append(word, Head(text)))

\* const args = ctx.message.text.split(/\s+/).slice(1); const newMode = args[0]
ModeArgument(text) ==
    LET First(words) == IF Len(words) >= 2 THEN words[2] ELSE << >>
    IN  First(SplitSpaces(text, << >>))

setMode_exact(mode, current) ==
    IF \E m \in VALID_MODES : ModeTexts[m] = mode
    THEN [success |-> TRUE, mode |-> CHOOSE m \in VALID_MODES : ModeTexts[m] = mode]
    ELSE [success |-> FALSE, mode |-> current]

\* setMode(mode): the mode the bot is in afterwards.
setMode(mode, current) ==
    LET Named(normalizedMode) ==
            IF \E m \in VALID_MODES : ModeTexts[m] = normalizedMode
            THEN [success |-> TRUE,
                  mode |-> CHOOSE m \in VALID_MODES : ModeTexts[m] = normalizedMode]
            ELSE [success |-> FALSE, mode |-> current]
    IN  Named(Trim(ToLowerCase(mode)))

\* messageText.replace(/^\/ask\s*/i, '').trim()
AskQuestion(text) ==
    IF startsWith(ToLowerCase(text), Slash \o Command_ask)
    THEN Trim(SubSeq(text, Len(Command_ask) + 2, Len(text)))
    ELSE Trim(text)

\* rawText.replace(new RegExp(botMention, 'gi'), '').trim()
QuestionOf(rawText) == Trim(RemoveAll(rawText, botMention))

\* What the middleware and the handlers compute from the text of an update.
mentionPasses == [update \in BotUpdates |-> MentionOnlyPasses(update)]
commandNames == [text \in BotTexts |-> CommandName(text)]
askQuestions == [text \in BotTexts |-> AskQuestion(text)]
modeArguments == [text \in BotTexts |-> ModeArgument(text)]

\* The text pipelineHandler is called with: pipelineAskHandler puts the
\* question in the place of the text.
HandlerText(update) ==
    IF commandNames[update.text] = Command_ask THEN askQuestions[update.text]
    ELSE update.text

HandlerTexts == {HandlerText(update) : update \in BotUpdates}
questions == [rawText \in HandlerTexts |-> QuestionOf(rawText)]

\* The way pipelineHandler takes: "command" (an unregistered command, no
\* reply), "unavailable", "prompt", "duplicate" (no reply) or "process".
HandlerBranch_knowledgeFirst(rawText, knowledge, store, userId, chatId, t) ==
    IF ~knowledge THEN "unavailable"
    ELSE IF startsWith(rawText, Slash) THEN "command"
    ELSE IF Len(questions[rawText]) < 2 THEN "prompt"
    ELSE IF IsDuplicateResult(store, userId, chatId, questions[rawText], t)
    THEN "duplicate"
    ELSE "process"

HandlerBranch(rawText, knowledge, store, userId, chatId, t) ==
    IF startsWith(rawText, Slash) THEN "command"
    ELSE IF ~knowledge THEN "unavailable"
    ELSE IF Len(questions[rawText]) < 2 THEN "prompt"
    ELSE IF IsDuplicateResult(store, userId, chatId, questions[rawText], t)
    THEN "duplicate"
    ELSE "process"

\* One update goes down the middleware stack to the handler that takes it.
\* stoppedAt names the middleware or the handler where it ends, reached
\* tells that pipelineHandler was called, branch is the way taken there.
BotRoute(update, mode, rates, maxM, store, t, knowledge) ==
    LET rate == RateLimitDecision(rates, update.from.id, t, maxM)
        filter == ModeFilterDecision(mode, update)
        command == commandNames[update.text]
        Route(at, reached, branch) ==
            [stoppedAt |-> at, reached |-> reached, branch |-> branch,
             rate |-> rate]
        Handler(at) ==
            Route(at, TRUE,
                  HandlerBranch(HandlerText(update), knowledge, store,
                                update.from.id, ChatIdOf(update), t))
    IN  IF ~update.from.present \/ update.from.is_bot
        THEN [stoppedAt |-> "ignoreBots", reached |-> FALSE, branch |-> "none",
              rate |-> "none"]
        ELSE IF rate # "next" THEN Route("rateLimit", FALSE, rate)
        ELSE IF filter # "next" THEN Route("modeFilter", FALSE, filter)
        ELSE IF ~mentionPasses[update] THEN Route("mentionOnly", FALSE, "none")
        ELSE IF command = Command_start THEN Route("startHandler", FALSE, "start")
        ELSE IF command = Command_ask
        THEN (IF askQuestions[update.text] = << >>
              THEN Route("pipelineAskHandler", FALSE, "usage")
              ELSE Handler("pipelineAskHandler"))
        ELSE IF command = Command_mode THEN Route("modeHandler", FALSE, "mode")
        ELSE IF command \in RegisteredCommands THEN Route("command", FALSE, "none")
        ELSE Handler("pipelineHandler")

\* send(ctx, text): a chunk that cannot be sent is sent once more.
send(kind, fails) ==
    IF fails THEN <<Reply(kind, << >>, FALSE), Reply(kind, << >>, FALSE)>>
    ELSE <<Reply(kind, << >>, TRUE)>>

\* try { await ctx.reply(text) } catch (err) { }
ReplyOnce(kind, fails) == <<Reply(kind, << >>, ~fails)>>

sendError(kind, fails) == ReplyOnce(kind, fails)

\* try { deliveryPlan = await process(ctx); await ctx.reply(messageText) }
\* catch (error) { await sendError(ctx) }
AnswerReplies(outcome, fails) ==
    LET Answer(messageText) ==
            IF fails
            THEN <<Reply("answer", messageText, FALSE)>> \o sendError("error", fails)
            ELSE <<Reply("answer", messageText, TRUE)>>
    IN  IF outcome.rejected THEN sendError("error", fails)
        ELSE Answer(IF outcome.plan.message = << >> THEN HandlerFallbackText
                    ELSE outcome.plan.message)

\* await ctx.reply(text) in a handler: what the call throws reaches
\* bot.catch, which replies once more.
ReplyOrCatch(kind, fails) ==
    IF fails THEN <<Reply(kind, << >>, FALSE)>> \o sendError("error", fails)
    ELSE <<Reply(kind, << >>, TRUE)>>

\* The handler of /mode: what it does to the mode and what it replies.
modeHandler(text, admin, current, fails) ==
    LET Changed(result) ==
            [mode |-> result.mode,
             replies |-> ReplyOrCatch(IF result.success THEN "modeChanged"
                                      ELSE "invalidMode", fails)]
    IN  IF ~admin THEN [mode |-> current, replies |-> ReplyOnce("restricted", fails)]
        ELSE IF modeArguments[text] = << >>
        THEN [mode |-> current, replies |-> ReplyOrCatch("currentMode", fails)]
        ELSE Changed(setMode(modeArguments[text], current))

\* The calls of ctx.reply on the way the update takes.
RepliesOf(branch, body, fails) ==
    CASE branch \in {"cooldown", "maintenance", "start"} -> ReplyOnce(branch, fails)
      [] branch \in {"usage", "prompt"} -> send(branch, fails)
      [] branch = "unavailable" -> sendError(branch, fails)
      [] branch = "process" -> AnswerReplies(ProcessOutcome(body), fails)
      [] OTHER -> << >>

\* bot.handleUpdate for one text message.
onText(update, fault, reply, pick, fails, admin) ==
    \E route \in {BotRoute(update, currentMode, rateLimitStore, maxMessages,
                           recentQueries, now, knowledgeAvailable)},
       rawText \in {HandlerText(update)},
       moded \in {modeHandler(update.text, admin, currentMode, fails)} :
        \E body \in IF route.branch = "process"
                    THEN {PipelineBody(rawText, fault, cache, now, reply, pick, 0,
                                       knowledgeAvailable)}
                    ELSE {NoCall} :
            /\ botMsgs < MaxBotMsgs
            /\ botLast = NoCall
            /\ botMsgs' = botMsgs + 1
            /\ rateLimitStore' =
                   IF route.stoppedAt = "ignoreBots" THEN rateLimitStore
                   ELSE RateLimitStoreAfter(rateLimitStore, update.from.id, now)
            /\ recentQueries' =
                   IF route.branch = "process"
                   THEN DupStoreAfter(recentQueries, update.from.id,
                                      ChatIdOf(update), questions[rawText], now)
                   ELSE recentQueries
            /\ cache' = IF route.branch = "process" THEN body.cache ELSE cache
            /\ botLast' = [op |-> "onText", handlerText |-> rawText,
                           stoppedAt |-> route.stoppedAt, reached |-> route.reached,
                           branch |-> route.branch, rate |-> route.rate,
                           chatType |-> update.chatType,
                           addressed |-> mentionPasses[[update EXCEPT
                                                           !.chatType = "group"]],
                           mode |-> currentMode,
                           admin |-> admin,
                           modeAsked |-> modeArguments[update.text],
                           replies |-> IF route.branch = "mode" THEN moded.replies
                                       ELSE RepliesOf(route.branch, body, fails)]
            /\ currentMode' = IF route.branch = "mode" THEN moded.mode
                              ELSE currentMode
            /\ UNCHANGED now
            /\ OnlyBot

\* The update has been handled: bot.handleUpdate returns.
updateHandled ==
    /\ botLast # NoCall
    /\ botLast' = NoCall
    /\ UNCHANGED <<now, rateLimitStore, recentQueries, cache, currentMode, botMsgs>>
    /\ OnlyBot

InitBot ==
    /\ now = 0
    /\ maxMessages \in 1..MaxMaxMessages
    /\ rateLimitStore = << >>
    /\ rlLog = << >>
    /\ IdleCache
    /\ IdleDup
    /\ knowledgeAvailable \in BOOLEAN
    /\ pipeLast = NoCall
    /\ pipeRuns = 0
    /\ IdleBot
    /\ IdleFetch
    /\ IdleLoader
    /\ IdleHandlers
    /\ IdlePure

\* An update reads the inputs of process only on the way that calls it, the
\* outcome of ctx.reply only on a way that replies, and the answer of
\* isAdmin(ctx) only when it is a /mode command.
NextBot ==
    \/ /\ botLast = NoCall
       /\ now < MaxBotTime
       /\ Tick
       /\ UNCHANGED <<rateLimitStore, recentQueries, cache, botVars>>
       /\ OnlyBot
    \/ updateHandled
    \/ /\ botMsgs < MaxBotMsgs
       /\ botLast = NoCall
       /\ \E update \in BotUpdates :
              \E branch \in {BotRoute(update, currentMode, rateLimitStore,
                                      maxMessages, recentQueries, now,
                                      knowledgeAvailable).branch} :
                  \E admin \in IF CommandName(update.text) = Command_mode
                               THEN BOOLEAN ELSE {FALSE},
                     fault \in IF branch = "process" THEN BotFaults ELSE {NoFault},
                     reply \in IF branch = "process" THEN BotReplies ELSE {NoReply},
                     fails \in IF branch \in {"none", "silent", "command", "duplicate"}
                               THEN {FALSE} ELSE BOOLEAN :
                      \E pick \in IF branch = "process"
                                  THEN 1..poolSizes[HandlerText(update), fault]
                                  ELSE {1} :
                          onText(update, fault, reply, pick, fails, admin)

SpecBot == InitBot /\ [][NextBot]_vars

----------------------------------------------------------------------------
(* pipeline/classifier.js extractKeywords, pipeline/planner.js
   selectKnowledgeSections *)

stopWords ==
    { <<119, 104, 97, 116>>, <<105, 115>>, <<116, 104, 101>>, <<97>>, <<97,
        110>>, <<104, 111, 119>>, <<100, 111>>, <<105>>, <<116, 111>>, <<99,
        97, 110>>, <<121, 111, 117>>, <<116, 101, 108, 108>>, <<109, 101>>,
        <<97, 98, 111, 117, 116>>, <<112, 108, 101, 97, 115, 101>>, <<119,
        104, 101, 114, 101>>, <<119, 104, 101, 110>>, <<119, 104, 121>>,
        <<119, 104, 105, 99, 104>>, <<97, 114, 101>>, <<116, 104, 101, 114,
        101>>, <<116, 104, 105, 115>>, <<116, 104, 97, 116>>, <<102, 111,
        114>>, <<111, 102>>, <<111, 110>>, <<105, 110>>, <<97, 110, 100>>,
        <<111, 114>> }

\* [...new Set(words)]: the first occurrence of each word, in order.
RECURSIVE Unique(_, _)
Unique(words, seen) ==
    IF words = << >> THEN seen
    ELSE Unique(Tail(words),
                IF \E k \in 1..Len(seen) : seen[k] = Head(words) THEN seen
                ELSE Append(seen, Head(words)))

\* query.replace(/[^\w\s]/g, '').split(/\s+/)
\*   .filter(w => w.length > 2 && !stopWords.has(w))
extractKeywords(query) ==
    Unique(SelectSeq(SplitSpaces(StripPunctuation(query), << >>),
                     LAMBDA w : Len(w) > 2 /\ w \notin stopWords),
           << >>)

\* The properties of the object literal sectionMapping.
sectionMapping ==
    <<
      \* pepper
      [keyword |-> <<112, 101, 112, 112, 101, 114>>, sections |->
        <<"what-is-peppercoin", "quick-reference">>],
      \* peppercoin
      [keyword |-> <<112, 101, 112, 112, 101, 114, 99, 111, 105, 110>>,
        sections |-> <<"what-is-peppercoin", "quick-reference">>],
      \* token
      [keyword |-> <<116, 111, 107, 101, 110>>, sections |->
        <<"what-is-peppercoin", "tokenomics">>],
      \* buy
      [keyword |-> <<98, 117, 121>>, sections |-> <<"how-to-get-started",
        "buying-and-trading">>],
      \* purchase
      [keyword |-> <<112, 117, 114, 99, 104, 97, 115, 101>>, sections |->
        <<"how-to-get-started", "buying-and-trading">>],
      \* exchange
      [keyword |-> <<101, 120, 99, 104, 97, 110, 103, 101>>, sections |->
        <<"buying-and-trading", "official-resources">>],
      \* dex
      [keyword |-> <<100, 101, 120>>, sections |-> <<"buying-and-trading">>],
      \* cex
      [keyword |-> <<99, 101, 120>>, sections |-> <<"buying-and-trading">>],
      \* fanx
      [keyword |-> <<102, 97, 110, 120>>, sections |->
        <<"buying-and-trading">>],
      \* mexc
      [keyword |-> <<109, 101, 120, 99>>, sections |->
        <<"buying-and-trading">>],
      \* contract
      [keyword |-> <<99, 111, 110, 116, 114, 97, 99, 116>>, sections |->
        <<"quick-reference", "buying-and-trading">>],
      \* address
      [keyword |-> <<97, 100, 100, 114, 101, 115, 115>>, sections |->
        <<"quick-reference", "buying-and-trading">>],
      \* wallet
      [keyword |-> <<119, 97, 108, 108, 101, 116>>, sections |->
        <<"how-to-get-started", "technical">>],
      \* metamask
      [keyword |-> <<109, 101, 116, 97, 109, 97, 115, 107>>, sections |->
        <<"how-to-get-started", "technical">>],
      \* chiliz
      [keyword |-> <<99, 104, 105, 108, 105, 122>>, sections |->
        <<"what-is-peppercoin", "technical">>],
      \* chain
      [keyword |-> <<99, 104, 97, 105, 110>>, sections |-> <<"technical",
        "what-is-peppercoin">>],
      \* governance
      [keyword |-> <<103, 111, 118, 101, 114, 110, 97, 110, 99, 101>>,
        sections |-> <<"pepper-inc-governance", "governance-and-staking">>],
      \* vote
      [keyword |-> <<118, 111, 116, 101>>, sections |->
        <<"pepper-inc-governance", "governance-and-staking">>],
      \* voting
      [keyword |-> <<118, 111, 116, 105, 110, 103>>, sections |->
        <<"pepper-inc-governance", "governance-and-staking">>],
      \* staking
      [keyword |-> <<115, 116, 97, 107, 105, 110, 103>>, sections |->
        <<"governance-and-staking">>],
      \* stake
      [keyword |-> <<115, 116, 97, 107, 101>>, sections |->
        <<"governance-and-staking">>],
      \* treasury
      [keyword |-> <<116, 114, 101, 97, 115, 117, 114, 121>>, sections |->
        <<"pepper-inc-governance">>],
      \* inc
      [keyword |-> <<105, 110, 99>>, sections |-> <<"pepper-inc-governance">>],
      \* supply
      [keyword |-> <<115, 117, 112, 112, 108, 121>>, sections |->
        <<"tokenomics">>],
      \* burn
      [keyword |-> <<98, 117, 114, 110>>, sections |-> <<"tokenomics">>],
      \* tokenomics
      [keyword |-> <<116, 111, 107, 101, 110, 111, 109, 105, 99, 115>>,
        sections |-> <<"tokenomics">>],
      \* scam
      [keyword |-> <<115, 99, 97, 109>>, sections |->
        <<"safety-and-security">>],
      \* safe
      [keyword |-> <<115, 97, 102, 101>>, sections |->
        <<"safety-and-security">>],
      \* security
      [keyword |-> <<115, 101, 99, 117, 114, 105, 116, 121>>, sections |->
        <<"safety-and-security">>],
      \* audit
      [keyword |-> <<97, 117, 100, 105, 116>>, sections |->
        <<"safety-and-security", "quick-reference">>],
      \* telegram
      [keyword |-> <<116, 101, 108, 101, 103, 114, 97, 109>>, sections |->
        <<"official-resources", "community-guidelines">>],
      \* twitter
      [keyword |-> <<116, 119, 105, 116, 116, 101, 114>>, sections |->
        <<"official-resources">>],
      \* community
      [keyword |-> <<99, 111, 109, 109, 117, 110, 105, 116, 121>>, sections
        |-> <<"community-guidelines", "community-programs">>],
      \* raid2earn
      [keyword |-> <<114, 97, 105, 100, 50, 101, 97, 114, 110>>, sections |->
        <<"community-programs">>]
    >>

\* The properties every object literal inherits from Object.prototype: a
\* function, or the prototype itself for __proto__.
ObjectPrototypeNames ==
    { <<99, 111, 110, 115, 116, 114, 117, 99, 116, 111, 114>>,
      <<95, 95, 112, 114, 111, 116, 111, 95, 95>>,
      <<104, 97, 115, 79, 119, 110, 80, 114, 111, 112, 101, 114, 116, 121>>,
      <<105, 115, 80, 114, 111, 116, 111, 116, 121, 112, 101, 79, 102>>,
      <<112, 114, 111, 112, 101, 114, 116, 121, 73, 115, 69, 110, 117, 109, 101, 114, 97, 98, 108, 101>>,
      <<116, 111, 76, 111, 99, 97, 108, 101, 83, 116, 114, 105, 110, 103>>,
      <<116, 111, 83, 116, 114, 105, 110, 103>>,
      <<118, 97, 108, 117, 101, 79, 102>>,
      <<95, 95, 100, 101, 102, 105, 110, 101, 71, 101, 116, 116, 101, 114, 95, 95>>,
      <<95, 95, 100, 101, 102, 105, 110, 101, 83, 101, 116, 116, 101, 114, 95, 95>>,
      <<95, 95, 108, 111, 111, 107, 117, 112, 71, 101, 116, 116, 101, 114, 95, 95>>,
      <<95, 95, 108, 111, 111, 107, 117, 112, 83, 101, 116, 116, 101, 114, 95, 95>> }

\* sectionMapping[keyword]: the array of an own property, an inherited value
\* that is no array, or undefined.
MappedSections(keyword) ==
    IF \E k \in 1..Len(sectionMapping) : sectionMapping[k].keyword = keyword
    THEN [kind |-> "array",
          sections |-> sectionMapping[CHOOSE k \in 1..Len(sectionMapping) :
                                          sectionMapping[k].keyword = keyword].sections]
    ELSE IF keyword \in ObjectPrototypeNames
    THEN [kind |-> "inherited", sections |-> << >>]
    ELSE [kind |-> "undefined", sections |-> << >>]

\* mapped.forEach(s => sections.add(s)) on a Set kept in insertion order
RECURSIVE AddSections(_, _)
AddSections(sections, mapped) ==
    IF mapped = << >> THEN sections
    ELSE AddSections(IF \E k \in 1..Len(sections) : sections[k] = Head(mapped)
                     THEN sections ELSE Append(sections, Head(mapped)),
                     Tail(mapped))

\* The loop over the keywords.  An inherited value is truthy and has no
\* forEach: the call throws a TypeError.
RECURSIVE SectionsOfKeywords(_, _)
SectionsOfKeywords(keywords, sections) ==
    IF keywords = << >> THEN [thrown |-> FALSE, sections |-> sections]
    ELSE IF MappedSections(Head(keywords)).kind = "inherited"
    THEN [thrown |-> TRUE, sections |-> << >>]
    ELSE SectionsOfKeywords(Tail(keywords),
                            AddSections(sections, MappedSections(Head(keywords)).sections))

GenericSections == <<"what-is-peppercoin", "quick-reference">>

\* What selectKnowledgeSections returns, or that it throws.
selectKnowledgeSections(keywords, responseClass) ==
    LET Selected(found) ==
            IF found.thrown THEN found
            ELSE IF found.sections = << >>
            THEN [thrown |-> FALSE, sections |-> GenericSections]
            ELSE [thrown |-> FALSE,
                  sections |-> SubSeq(found.sections, 1,
                                      IF Len(found.sections) < 3
                                      THEN Len(found.sections) ELSE 3)]
    IN  Selected(SectionsOfKeywords(keywords, << >>))

----------------------------------------------------------------------------
(* plan().knowledgeSections for the keywords of a query *)

MaxWords == 3
MaxSelections == 2

\* pepper
Word_pepper ==
    <<112, 101, 112, 112, 101, 114>>

\* buy
Word_buy ==
    <<98, 117, 121>>

\* governance?
Word_governance ==
    <<103, 111, 118, 101, 114, 110, 97, 110, 99, 101, 63>>

\* hello
Word_hello ==
    <<104, 101, 108, 108, 111>>

\* the
Word_the ==
    <<116, 104, 101>>

\* constructor
Word_constructor ==
    <<99, 111, 110, 115, 116, 114, 117, 99, 116, 111, 114>>

QueryWords ==
    {Word_pepper, Word_buy, Word_governance, Word_hello, Word_the, Word_constructor}

WordLists == UNION {[1..n -> QueryWords] : n \in 0..MaxWords}

\* The words with a space between them.
RECURSIVE Sentence(_)
Sentence(words) ==
    IF words = << >> THEN << >>
    ELSE IF Len(words) = 1 THEN words[1]
    ELSE words[1] \o <<32>> \o Sentence(Tail(words))

\* const { keywords, responseClass } = classify(query); the knowledgeSections
\* of plan(classification).
keywordsOf == [words \in WordLists |-> extractKeywords(Trim(ToLowerCase(Sentence(words))))]
sectionsOf ==
    [words \in WordLists |-> selectKnowledgeSections(keywordsOf[words], "FACTUAL")]

Queried(words) == [op |-> "queried", input |-> words, result |-> NoCall]

\* The next query is classified.
queried(words) ==
    /\ applied.op # "queried"
    /\ applications < MaxSelections
    /\ applied' = Queried(words)
    /\ applications' = applications + 1
    /\ OnlyPure

selectKnowledgeSectionsCalled ==
    /\ applied.op = "queried"
    /\ applied' = [op |-> "selectKnowledgeSections", input |-> applied.input,
                   result |-> [keywords |-> keywordsOf[applied.input],
                               thrown |-> sectionsOf[applied.input].thrown,
                               knowledgeSections |-> sectionsOf[applied.input].sections]]
    /\ UNCHANGED applications
    /\ OnlyPure

InitSections ==
    /\ now = 0
    /\ IdleRate
    /\ IdleCache
    /\ IdleDup
    /\ IdlePipe
    /\ IdleBot
    /\ IdleFetch
    /\ IdleLoader
    /\ IdleHandlers
    /\ applied \in {Queried(words) : words \in WordLists}
    /\ applications = 0

NextSections ==
    \/ \E words \in WordLists : queried(words)
    \/ selectKnowledgeSectionsCalled

SpecSections == InitSections /\ [][NextSections]_vars

----------------------------------------------------------------------------
(* knowledge/validator.js, knowledge/loader.js, handlers/refreshKnowledge.js *)

MAX_KNOWLEDGE_SIZE_BYTES == 500 * 1024
MIN_CONTENT_LENGTH == 100
REQUIRED_VERSION_FIELDS == <<"version", "last_updated", "source">>

MaxLoaderCalls == 3

\* A file of the knowledge directory as the validator and the loader see it:
\* whether it exists, its size in bytes, whether readFileSync succeeds when
\* the validator reads it and when the loader reads it again, and what is
\* read: for peppercoin.md the text without the whitespace around it (body),
\* its length and whether it holds a '#'; for version.json whether it parses
\* and the fields of the parsed object ("" for a missing field).
KnowledgeFile(exists, size, trimmedLength, hasHeading, body, readable, readableAtLoad) ==
    [exists |-> exists, size |-> size, trimmedLength |-> trimmedLength,
     hasHeading |-> hasHeading, body |-> body,
     readable |-> readable, readableAtLoad |-> readableAtLoad]

VersionFile(exists, parses, version, last_updated, source, dateMatches) ==
    [exists |-> exists, parses |-> parses,
     fields |-> [version |-> version, last_updated |-> last_updated,
                 source |-> source],
     dateMatches |-> dateMatches]

Knowledge_first == KnowledgeFile(TRUE, 2048, 2000, TRUE, "# Peppercoin, first edition", TRUE, TRUE)
Knowledge_second == KnowledgeFile(TRUE, 4096, 4000, TRUE, "# Peppercoin, second edition", TRUE, TRUE)
Knowledge_missing == KnowledgeFile(FALSE, 0, 0, FALSE, "", FALSE, FALSE)
Knowledge_empty == KnowledgeFile(TRUE, 0, 0, FALSE, "", TRUE, TRUE)
Knowledge_tooLarge == KnowledgeFile(TRUE, MAX_KNOWLEDGE_SIZE_BYTES + 1, 500000, TRUE, "# Large", TRUE, TRUE)
Knowledge_short == KnowledgeFile(TRUE, 120, MIN_CONTENT_LENGTH - 1, TRUE, "# Short", TRUE, TRUE)
Knowledge_noHeading == KnowledgeFile(TRUE, 2048, 2000, FALSE, "Peppercoin without headings", TRUE, TRUE)
Knowledge_unreadable == KnowledgeFile(TRUE, 2048, 2000, TRUE, "# Peppercoin, first edition", FALSE, FALSE)
Knowledge_goneAtLoad == KnowledgeFile(TRUE, 2048, 2000, TRUE, "# Peppercoin, first edition", TRUE, FALSE)

Version_first == VersionFile(TRUE, TRUE, "1.0.0", "2025-01-01", "official", TRUE)
Version_second == VersionFile(TRUE, TRUE, "1.1.0", "2025-02-01", "official", TRUE)
Version_missing == VersionFile(FALSE, FALSE, "", "", "", FALSE)
Version_notJson == VersionFile(TRUE, FALSE, "", "", "", FALSE)
Version_noSource == VersionFile(TRUE, TRUE, "1.1.0", "2025-02-01", "", TRUE)
Version_badDate == VersionFile(TRUE, TRUE, "1.1.0", "Feb 1st", "official", FALSE)

\* The states of the knowledge directory a load may find.
KnowledgeDirs ==
    {[knowledge |-> Knowledge_first, version |-> Version_first],
     [knowledge |-> Knowledge_second, version |-> Version_second],
     [knowledge |-> Knowledge_missing, version |-> Version_first],
     [knowledge |-> Knowledge_empty, version |-> Version_first],
     [knowledge |-> Knowledge_tooLarge, version |-> Version_first],
     [knowledge |-> Knowledge_short, version |-> Version_first],
     [knowledge |-> Knowledge_noHeading, version |-> Version_first],
     [knowledge |-> Knowledge_unreadable, version |-> Version_first],
     [knowledge |-> Knowledge_goneAtLoad, version |-> Version_first],
     [knowledge |-> Knowledge_second, version |-> Version_missing],
     [knowledge |-> Knowledge_second, version |-> Version_notJson],
     [knowledge |-> Knowledge_second, version |-> Version_noSource],
     [knowledge |-> Knowledge_second, version |-> Version_badDate],
     [knowledge |-> Knowledge_missing, version |-> Version_missing]}

validateKnowledgeFile(file) ==
    IF ~file.exists THEN [valid |-> FALSE, errors |-> <<"Knowledge file not found">>]
    ELSE IF file.size > MAX_KNOWLEDGE_SIZE_BYTES
         THEN [valid |-> FALSE, errors |-> <<"Knowledge file too large">>]
    ELSE IF file.size = 0
         THEN [valid |-> FALSE, errors |-> <<"Knowledge file is empty">>]
    ELSE IF ~file.readable
         THEN [valid |-> FALSE, errors |-> <<"Cannot read knowledge file">>]
    ELSE IF file.trimmedLength < MIN_CONTENT_LENGTH
         THEN [valid |-> FALSE, errors |-> <<"Knowledge content too short">>]
    ELSE IF ~file.hasHeading
         THEN [valid |-> FALSE, errors |-> <<"Knowledge file has no markdown headings">>]
    ELSE [valid |-> TRUE, errors |-> << >>]

MissingFields(file) ==
    SelectSeq(REQUIRED_VERSION_FIELDS, LAMBDA field : file.fields[field] = "")

validateVersionFile(file) ==
    IF ~file.exists THEN [valid |-> FALSE, errors |-> <<"Version file not found">>]
    ELSE IF ~file.parses THEN [valid |-> FALSE, errors |-> <<"Invalid version.json">>]
    ELSE IF MissingFields(file) # << >>
         THEN [valid |-> FALSE,
               errors |-> [i \in 1..Len(MissingFields(file)) |->
                              "Missing required field in version.json"]]
    ELSE IF ~file.dateMatches
         THEN [valid |-> FALSE, errors |-> <<"Invalid date format in version.json">>]
    ELSE [valid |-> TRUE, errors |-> << >>]

validateAllKnowledge(dir) ==
    LET allErrors == validateKnowledgeFile(dir.knowledge).errors
                     \o validateVersionFile(dir.version).errors
    IN  [valid |-> allErrors = << >>, errors |-> allErrors]

isKnowledgeAvailable(cached) == cached.loaded /\ cached.valid

getKnowledgeContent(cached) ==
    IF ~isKnowledgeAvailable(cached) THEN "null" ELSE cached.content

getKnowledgeVersion(cached) ==
    IF ~isKnowledgeAvailable(cached) THEN "null" ELSE cached.version

\* loadKnowledge(dir) at time t: the new knowledgeCache and the value returned.
loadKnowledge(dir, t) ==
    LET validationResult == validateAllKnowledge(dir)
    IN  IF ~validationResult.valid
        THEN [cache |-> [EmptyKnowledgeCache EXCEPT !.errors = validationResult.errors],
              success |-> FALSE, errors |-> validationResult.errors]
        ELSE IF ~dir.knowledge.readableAtLoad
        THEN [cache |-> [EmptyKnowledgeCache EXCEPT !.errors = <<"Failed to load knowledge">>],
              success |-> FALSE, errors |-> <<"Failed to load knowledge">>]
        ELSE [cache |-> [loaded |-> TRUE, valid |-> TRUE,
                         content |-> dir.knowledge.body,
                         version |-> dir.version.fields.version,
                         loadedAt |-> t, errors |-> << >>],
              success |-> TRUE, errors |-> << >>]

reloadKnowledge(dir, t) == loadKnowledge(dir, t)

OnlyLoader ==
    UNCHANGED <<rateVars, cacheVars, dupVars, pipeLast, pipeRuns, botVars, fetchVars,
                pureVars, handlers>>

\* What a loader call leaves behind: the cache and what the accessors said
\* before it, the directory it found and what it returned.
LoaderCall(op, dir, loadResult) ==
    /\ knowledgeCache' = loadResult.cache
    /\ knowledgeAvailable' = isKnowledgeAvailable(loadResult.cache)
    /\ knowledgeLast' = [op |-> op, dir |-> dir,
                         availableBefore |-> isKnowledgeAvailable(knowledgeCache),
                         contentBefore |-> getKnowledgeContent(knowledgeCache),
                         success |-> loadResult.success,
                         errors |-> loadResult.errors]
    /\ knowledgeCalls' = knowledgeCalls + 1

\* bot.js, initializeBot: loadKnowledge() once, before the bot is created.
Startup(dir) ==
    /\ knowledgeLast = NoCall
    /\ LoaderCall("loadKnowledge", dir, loadKnowledge(dir, now))
    /\ UNCHANGED now
    /\ OnlyLoader

\* refreshKnowledgeHandler(ctx): a non-admin is told the command is restricted
\* and nothing is reloaded; for an admin reloadKnowledge() runs.
refreshKnowledgeHandler(admin, dir) ==
    /\ knowledgeLast # NoCall
    /\ knowledgeCalls < MaxLoaderCalls
    /\ IF admin
       THEN LoaderCall("reloadKnowledge", dir, reloadKnowledge(dir, now))
       ELSE /\ knowledgeLast' = [op |-> "restricted", dir |-> dir,
                                availableBefore |-> isKnowledgeAvailable(knowledgeCache),
                                contentBefore |-> getKnowledgeContent(knowledgeCache),
                                success |-> FALSE, errors |-> << >>]
            /\ knowledgeCalls' = knowledgeCalls + 1
            /\ UNCHANGED <<knowledgeCache, knowledgeAvailable>>
    /\ UNCHANGED now
    /\ OnlyLoader

LoaderTick ==
    /\ now < MaxTime
    /\ now' = now + 1
    /\ UNCHANGED loaderVars
    /\ UNCHANGED knowledgeAvailable
    /\ OnlyLoader

InitLoader ==
    /\ now = 0
    /\ IdleRate
    /\ IdleCache
    /\ IdleDup
    /\ knowledgeAvailable = FALSE
    /\ pipeLast = NoCall
    /\ pipeRuns = 0
    /\ IdleBot
    /\ IdleFetch
    /\ IdleLoader
    /\ IdleHandlers
    /\ IdlePure

NextLoader ==
    \/ \E dir \in KnowledgeDirs : Startup(dir)
    \/ \E admin \in BOOLEAN, dir \in KnowledgeDirs : refreshKnowledgeHandler(admin, dir)
    \/ LoaderTick

SpecLoader == InitLoader /\ [][NextLoader]_vars

----------------------------------------------------------------------------
(* safety/duplicateGuard.js: isDuplicate calls of known users between sweeps *)

SweepQueries == {Text_whatispepper, Text_WhatIsPepperQ}

InitSweep ==
    /\ now = 0
    /\ IdleRate
    /\ IdleCache
    /\ IdleDup
    /\ IdlePipe
    /\ IdleBot
    /\ IdleFetch
    /\ IdleLoader
    /\ IdleHandlers
    /\ IdlePure

NextSweep ==
    \/ (Tick /\ UNCHANGED dupVars /\ OnlyDup)
    \/ \E u \in UserIds, c \in ChatIds \cup {NoChat}, q \in SweepQueries :
          isDuplicate(u, c, q)
    \/ duplicateCleanup

SpecSweep == InitSweep /\ [][NextSweep]_vars

----------------------------------------------------------------------------
(* middleware/rateLimit.js: handlers of several updates in flight at once *)

\* A handler runs from its entry to its first await without interruption:
\* the lookup, the increment and the two comparisons are one step.  It is
\* then suspended at `await ctx.reply(...)` (replying), or inside next()
\* with the rest of the middleware chain (downstream), or it has returned.
OnlyRateHandlers ==
    UNCHANGED <<cacheVars, dupVars, pipeVars, botVars, fetchVars, pureVars, loaderVars>>

HandlerAfter(outcome) ==
    [pc |-> CASE outcome = "cooldown" -> "replying"
              [] outcome = "next" -> "downstream"
              [] OTHER -> "returned",
     replies |-> 0]

\* The update of userId arrives and the middleware runs up to its first
\* await, whatever the handlers of earlier updates are waiting for.
rateLimitEnters(userId) ==
    /\ Len(rlLog) < MaxRateMsgs
    /\ rateLimitStore' = RateLimitStoreAfter(rateLimitStore, userId, now)
    /\ rlLog' = Append(rlLog,
          [user |-> userId, time |-> now,
           outcome |-> RateLimitDecision(rateLimitStore, userId, now, maxMessages),
           count |-> RateLimitStoreAfter(rateLimitStore, userId, now)[userId].count,
           resetTime |-> RateLimitStoreAfter(rateLimitStore, userId, now)[userId].resetTime])
    /\ handlers' = Append(handlers,
          HandlerAfter(RateLimitDecision(rateLimitStore, userId, now, maxMessages)))
    /\ UNCHANGED <<now, maxMessages>>
    /\ OnlyRateHandlers

\* ctx.reply of handler h settles: the reply was sent, or it failed and the
\* error is logged; either way the handler returns without calling next().
replySettles(h, sent) ==
    /\ handlers[h].pc = "replying"
    /\ handlers' = [handlers EXCEPT ![h] = [pc |-> "returned",
                                           replies |-> IF sent THEN 1 ELSE 0]]
    /\ UNCHANGED <<now, rateVars>>
    /\ OnlyRateHandlers

\* next() of handler h settles.
nextSettles(h) ==
    /\ handlers[h].pc = "downstream"
    /\ handlers' = [handlers EXCEPT ![h].pc = "returned"]
    /\ UNCHANGED <<now, rateVars>>
    /\ OnlyRateHandlers

InitConcurrent ==
    /\ now = 0
    /\ maxMessages \in 1..MaxMaxMessages
    /\ rateLimitStore = << >>
    /\ rlLog = << >>
    /\ IdleCache
    /\ IdleDup
    /\ IdlePipe
    /\ IdleBot
    /\ IdleFetch
    /\ IdleLoader
    /\ IdleHandlers
    /\ IdlePure

NextConcurrent ==
    \/ (Tick /\ UNCHANGED <<rateVars, handlers>> /\ OnlyRateHandlers)
    \/ \E u \in UserIds : rateLimitEnters(u)
    \/ \E h \in 1..Len(handlers), sent \in BOOLEAN : replySettles(h, sent)
    \/ \E h \in 1..Len(handlers) : nextSettles(h)
    \/ rateLimitCleanup

SpecConcurrent == InitConcurrent /\ [][NextConcurrent]_vars

----------------------------------------------------------------------------
(* admin/modes.js: getMode, setMode and isValidMode called with names *)

MaxModeCalls == 4

\* normal
ModeName_normal ==
    <<110, 111, 114, 109, 97, 108>>

\*   Silent 
ModeName_paddedSilent ==
    <<32, 32, 83, 105, 108, 101, 110, 116, 32>>

\* MAINTENANCE\n
ModeName_upper ==
    <<77, 65, 73, 78, 84, 69, 78, 65, 78, 67, 69, 10>>

\* off
ModeName_off ==
    <<111, 102, 102>>

\*    
ModeName_blank ==
    <<32, 32, 32>>

\* normal mode
ModeName_twoWords ==
    <<110, 111, 114, 109, 97, 108, 32, 109, 111, 100, 101>>

\* si lent
ModeName_split ==
    <<115, 105, 32, 108, 101, 110, 116>>

\* maint
ModeName_prefix ==
    <<109, 97, 105, 110, 116>>

ModeNames ==
    {ModeName_normal, ModeName_paddedSilent, ModeName_upper, ModeName_off,
     ModeName_blank, ModeName_twoWords, ModeName_split, ModeName_prefix}

getMode == currentMode

\* VALID_MODES.includes(mode.toLowerCase().trim())
isValidMode(mode) ==
    \E m \in VALID_MODES : ModeTexts[m] = Trim(ToLowerCase(mode))

\* setMode(mode) is called: the module's currentMode and the value returned.
setModeCalled(mode) ==
    /\ applications < MaxModeCalls
    /\ currentMode' = setMode(mode, currentMode).mode
    /\ applied' = [op |-> "setMode", input |-> mode,
                   result |-> [returned |-> setMode(mode, currentMode).success,
                               previousMode |-> getMode]]
    /\ applications' = applications + 1
    /\ UNCHANGED <<now, rateVars, cacheVars, dupVars, pipeVars, botLast, botMsgs,
                   fetchVars, loaderVars, handlers>>

\* isValidMode(mode) is called: the mode stays as it is.
isValidModeCalled(mode) ==
    /\ applications < MaxModeCalls
    /\ applied' = [op |-> "isValidMode", input |-> mode,
                   result |-> [returned |-> isValidMode(mode),
                               previousMode |-> getMode]]
    /\ applications' = applications + 1
    /\ UNCHANGED <<now, rateVars, cacheVars, dupVars, pipeVars, botVars,
                   fetchVars, loaderVars, handlers>>

InitMode ==
    /\ now = 0
    /\ IdleRate
    /\ IdleCache
    /\ IdleDup
    /\ IdlePipe
    /\ IdleBot
    /\ IdleFetch
    /\ IdleLoader
    /\ IdleHandlers
    /\ IdlePure

NextMode ==
    \/ \E mode \in ModeNames : setModeCalled(mode)
    \/ \E mode \in ModeNames : isValidModeCalled(mode)

SpecMode == InitMode /\ [][NextMode]_vars

----------------------------------------------------------------------------
(* C1 *)

\* The times and the outcomes of one user's messages, in arrival order.
RECURSIVE TimesOf(_, _)
TimesOf(log, u) ==
    IF log = << >> THEN << >>
    ELSE (IF Head(log).user = u THEN <<Head(log).time>> ELSE << >>)
         \o TimesOf(Tail(log), u)

RECURSIVE OutcomesOf(_, _)
OutcomesOf(log, u) ==
    IF log = << >> THEN << >>
    ELSE (IF Head(log).user = u THEN <<Head(log).outcome>> ELSE << >>)
         \o OutcomesOf(Tail(log), u)

\* What the fixed-window rule prescribes for a series of arrival times:
\* ws is the start of the open window (-1: none), k the messages in it.
RECURSIVE WindowRule(_, _, _, _)
WindowRule(times, ws, k, maxM) ==
    IF times = << >> THEN << >>
    ELSE LET t == Head(times) IN
         IF ws < 0 \/ t > ws + WindowMs
         THEN <<"next">> \o WindowRule(Tail(times), t, 1, maxM)
         ELSE <<IF k + 1 <= maxM THEN "next"
                ELSE IF k + 1 = maxM + 1 THEN "cooldown"
                ELSE "silent">>
              \o WindowRule(Tail(times), ws, k + 1, maxM)

\* C1: for every user, the first maxMessages messages of a window are passed
\* to next(), message maxMessages+1 gets the one cooldown reply, later ones in
\* the window are dropped silently, and the first message after the window
\* has expired is passed on with the counter at 1 and a fresh window.
RateLimitWindowContract ==
    /\ \A u \in UserIds :
          OutcomesOf(rlLog, u) = WindowRule(TimesOf(rlLog, u), -1, 0, maxMessages)
    /\ \A i \in 1..Len(rlLog) :
          LET e == rlLog[i] IN
          (/\ e.user # NoUser
           /\ \E j \in 1..(i-1) : /\ rlLog[j].user = e.user
                                  /\ \A m \in (j+1)..(i-1) : rlLog[m].user # e.user
                                  /\ e.time > rlLog[j].resetTime)
          => (e.outcome = "next" /\ e.count = 1 /\ e.resetTime = e.time + WindowMs)

\* A user ran through a whole window: passed, warned once, dropped, and
\* passed again after the expiry.
RateLimitWindowWitness ==
    \E u \in UserIds :
       \E i, j, k, l \in 1..Len(rlLog) :
          /\ i < j /\ j < k /\ k < l
          /\ rlLog[i].user = u /\ rlLog[j].user = u
          /\ rlLog[k].user = u /\ rlLog[l].user = u
          /\ rlLog[i].outcome = "next"
          /\ rlLog[j].outcome = "cooldown"
          /\ rlLog[k].outcome = "silent"
          /\ rlLog[l].outcome = "next" /\ rlLog[l].time > rlLog[k].resetTime

----------------------------------------------------------------------------
(* C2 *)

CacheKeys(c) == {c[i].key : i \in 1..Len(c)}

\* C2: whatever set, get and clear calls are made, also with queries whose
\* key is the empty string, the store never holds more than MAX_CACHE_SIZE
\* entries.
CacheNeverExceedsMax == Len(cache) <= MAX_CACHE_SIZE

\* C2, second half: a set on a full store removes an entry of the oldest
\* timestamp.
CacheEvictsOldest ==
    [][(cacheLast'.op = "set" /\ cacheCalls' = cacheCalls + 1
        /\ Len(cache) >= MAX_CACHE_SIZE)
       => \E i \in 1..Len(cache) :
             /\ \A j \in 1..Len(cache) : cache[i].timestamp <= cache[j].timestamp
             /\ CacheKeys(cache') \cup {cache[i].key}
                   = CacheKeys(cache) \cup {normalizeKey(cacheLast'.query)}
             /\ (cache[i].key # normalizeKey(cacheLast'.query)
                   => cache[i].key \notin CacheKeys(cache'))]_vars

----------------------------------------------------------------------------
(* C3 *)

\* A get of a query with the key of the latest set, no set or clear between.
GetOfLastSet ==
    /\ cacheLast'.op = "get" /\ cacheCalls' = cacheCalls + 1
    /\ lastSet # NoCall
    /\ normalizeKey(cacheLast'.query) = normalizeKey(lastSet.query)

\* C3: after set(q, r, ttl), with no set or clear in between, every get of a
\* query with the same normalized key returns {hit: true, response: r} while
\* no more than ttl has passed since the set; a get after that returns
\* {hit: false, response: null} and leaves no entry for the key, neither in
\* the store nor in getStats().
CacheGetAfterSet ==
    [][GetOfLastSet =>
         IF now - lastSet.time <= lastSet.ttl
         THEN cacheLast'.ret = [hit |-> TRUE, response |-> lastSet.response]
         ELSE /\ cacheLast'.ret = [hit |-> FALSE, response |-> "null"]
              /\ normalizeKey(lastSet.query) \notin CacheKeys(cache')
              /\ \A i \in 1..Len(getStats(cache', now).entries) :
                    getStats(cache', now).entries[i].key
                       # Prefix(normalizeKey(lastSet.query), 30)
              /\ getStats(cache', now).size = Len(cache')]_vars

\* A get of a differently written query with the same key found the entry
\* of the latest set expired.
CacheGetAfterSetWitness ==
    /\ cacheLast.op = "get" /\ lastSet # NoCall
    /\ normalizeKey(cacheLast.query) = normalizeKey(lastSet.query)
    /\ cacheLast.query # lastSet.query
    /\ cacheLast.ret.hit = FALSE
    /\ now - lastSet.time > lastSet.ttl
    /\ cacheCalls = 3

----------------------------------------------------------------------------
(* C7 *)

IsDupStep == dupLast'.op = "isDuplicate" /\ dupCalls' = dupCalls + 1

\* The record isDuplicate consults for the call just made.
DupRecordFor(call) == DupIndex(recentQueries, DupKeyOf(call.userId, call.chatId))

\* The words of a text, lowercased: equal for two texts exactly when they
\* differ in case and in the amount of whitespace only.
RECURSIVE FoldedWords(_, _)
FoldedWords(s, word) ==
    IF s = << >> THEN (IF word = << >> THEN << >> ELSE <<word>>)
    ELSE IF IsSpace(Head(s))
         THEN (IF word = << >> THEN << >> ELSE <<word>>) \o FoldedWords(Tail(s), << >>)
         ELSE FoldedWords(Tail(s), Append(word, Lower(Head(s))))

foldedWords == [q \in DupQueries |-> FoldedWords(q, << >>)]

\* C7 as stated: with "What is PEPPER?" on record for (u, c) and inside the
\* window, isDuplicate(u, c, "what is pepper") returns true.
DupIgnoresPunctuation ==
    [][(/\ IsDupStep
        /\ dupLast'.query = Text_whatispepper /\ dupLast'.userId # NoUser
        /\ DupRecordFor(dupLast') # 0
        /\ recentQueries[DupRecordFor(dupLast')].text = Text_WhatIsPepperQ
        /\ now - recentQueries[DupRecordFor(dupLast')].timestamp < DUPLICATE_WINDOW_MS)
       => dupLast'.ret = TRUE]_vars

\* C7, amended: duplicate suppression is insensitive to the case of the text
\* and to its whitespace: a call whose text has the same lowercased words as
\* the text on record for (u, c), made inside the window, returns true.
DupIgnoresCaseAndSpace ==
    [][(/\ IsDupStep
        /\ dupLast'.query # << >> /\ dupLast'.userId # NoUser
        /\ DupRecordFor(dupLast') # 0
        /\ foldedWords[recentQueries[DupRecordFor(dupLast')].text]
              = foldedWords[dupLast'.query]
        /\ now - recentQueries[DupRecordFor(dupLast')].timestamp < DUPLICATE_WINDOW_MS)
       => dupLast'.ret = TRUE]_vars

\* "  what  IS pepper? " was suppressed as a repeat of "What is PEPPER?".
DupIgnoresCaseAndSpaceWitness ==
    /\ dupLast.op = "isDuplicate" /\ dupLast.ret = TRUE
    /\ dupLast.query = Text_spaced
    /\ \E i \in 1..Len(recentQueries) :
          /\ recentQueries[i].key = DupKeyOf(dupLast.userId, dupLast.chatId)
          /\ recentQueries[i].text = Text_WhatIsPepperQ

----------------------------------------------------------------------------
(* C8 *)

\* C8 as stated: isDuplicate returns true exactly when the record of (u, c)
\* has the hash of the text and is younger than the window; in every other
\* case it returns false and stores the new hash with the current time.
DupIffRecorded ==
    [][IsDupStep =>
         LET call == dupLast'
             i == DupRecordFor(call)
             known == /\ i # 0
                      /\ recentQueries[i].hash = QueryHash(call.query)
                      /\ now - recentQueries[i].timestamp < DUPLICATE_WINDOW_MS
         IN IF known THEN call.ret = TRUE
            ELSE /\ call.ret = FALSE
                 /\ \E j \in 1..Len(recentQueries') :
                       /\ recentQueries'[j].key = DupKeyOf(call.userId, call.chatId)
                       /\ recentQueries'[j].hash = QueryHash(call.query)
                       /\ recentQueries'[j].timestamp = now]_vars

\* C8, amended: the same, for calls with a user id and a non-empty text; a
\* call without a user id or with an empty text returns false and stores
\* nothing.  A record found leaves the store as it was.
DupIffRecordedForRealCalls ==
    [][IsDupStep =>
         LET call == dupLast'
             i == DupRecordFor(call)
             known == /\ i # 0
                      /\ recentQueries[i].hash = QueryHash(call.query)
                      /\ now - recentQueries[i].timestamp < DUPLICATE_WINDOW_MS
         IN IF call.userId = NoUser \/ call.query = << >>
            THEN call.ret = FALSE /\ recentQueries' = recentQueries
            ELSE IF known THEN call.ret = TRUE /\ recentQueries' = recentQueries
            ELSE /\ call.ret = FALSE
                 /\ \E j \in 1..Len(recentQueries') :
                       /\ recentQueries'[j].key = DupKeyOf(call.userId, call.chatId)
                       /\ recentQueries'[j].hash = QueryHash(call.query)
                       /\ recentQueries'[j].timestamp = now]_vars

\* A text was recorded, repeated inside the window and suppressed, and
\* repeated again once the window was over and let through.
DupIffRecordedWitness ==
    /\ dupCalls = 3 /\ dupLast.op = "isDuplicate" /\ dupLast.ret = FALSE
    /\ \E i \in 1..Len(recentQueries) :
          /\ recentQueries[i].key = DupKeyOf(dupLast.userId, dupLast.chatId)
          /\ recentQueries[i].timestamp = now
          /\ now > DUPLICATE_WINDOW_MS
    /\ Len(recentQueries) = 1

----------------------------------------------------------------------------
(* C4 *)

HasSet(ops) == \E k \in 1..Len(ops) : ops[k].op = "set"

\* C4: when the remote call of a run fails, generate returns the fixed
\* apology with tokensUsed 0, the validator accepts that text, and the run
\* makes no cache.set.
UpstreamFailureNotCached ==
    (pipeLast # NoCall /\ pipeLast.remote \in RemoteFailures) =>
        /\ pipeLast.generated.text = GenerationIssueText
        /\ pipeLast.generated.tokensUsed = 0
        /\ validations[GenerationIssueText].valid
        /\ ~HasSet(pipeLast.cacheOps)

----------------------------------------------------------------------------
(* C5 *)

\* The texts of the model that fail the forbidden-pattern check of validate.
forbiddenTexts == {text \in PipeTexts : ContainsForbiddenOutput(text)}

\* C5: a generated text that fails the forbidden-pattern check is never
\* written to the cache and never delivered: the run returns the fixed
\* fallback, its text is in no cache entry, and no run gets it from the cache.
ForbiddenTextNeverCached ==
    /\ \A k \in 1..Len(cache) : cache[k].response \notin forbiddenTexts
    /\ (pipeLast # NoCall /\ ~pipeLast.thrown
            /\ pipeLast.generated.text \in forbiddenTexts) =>
           /\ ~pipeLast.generated.fromCache
           /\ pipeLast.plan.message = ValidationFallbackText

----------------------------------------------------------------------------
(* C6 *)

\* C6: a run whose message checkForbidden finds forbidden returns a refusal
\* of the pool of the matched intent, and calls no stage after checkForbidden:
\* no classify, plan or generate, no cache call, no remote call.
ForbiddenShortCircuit ==
    (pipeLast # NoCall /\ pipeLast.forbidden # NoIntent) =>
        /\ ~pipeLast.rejected
        /\ ~pipeLast.thrown
        /\ pipeLast.forbidden \in
               {"INVESTMENT_ADVICE", "PRICE_SPECULATION", "MARKET_SENTIMENT",
                "ADVERSARIAL"}
        /\ \E k \in 1..Len(REFUSAL_TEMPLATES[pipeLast.forbidden]) :
               pipeLast.plan.message = REFUSAL_TEMPLATES[pipeLast.forbidden][k]
        /\ ~pipeLast.plan.formatted
        /\ pipeLast.calls = <<"checkForbidden">>
        /\ pipeLast.cacheOps = << >>
        /\ pipeLast.remoteCalls = 0

\* A run on "wen moon" while the cache holds an answer: the refusal is the
\* second of the price-speculation pool.
ForbiddenShortCircuitWitness ==
    /\ pipeLast # NoCall
    /\ pipeLast.messageText = Query_wenMoon
    /\ pipeLast.forbidden = "PRICE_SPECULATION"
    /\ pipeLast.plan.message = REFUSAL_TEMPLATES.PRICE_SPECULATION[2]
    /\ cache # << >>

----------------------------------------------------------------------------
(* C9 *)

\* C9: whichever stage throws, the promise process returns is not rejected:
\* it resolves to a delivery plan with the generic error text, parseMode
\* null and a processing time.
ExceptionBoundary ==
    pipeLast # NoCall =>
        /\ ~pipeLast.rejected
        /\ pipeLast.thrown =>
               /\ pipeLast.plan.message = PipelineErrorText
               /\ pipeLast.plan.parseMode = "null"
               /\ pipeLast.plan.processingTimeMs \in 0..MaxLatency

\* format throws after a remote call that took time and a cache write.
ExceptionBoundaryWitness ==
    /\ pipeLast # NoCall
    /\ pipeLast.thrown
    /\ pipeLast.calls = Stages
    /\ pipeLast.remoteCalls = 1
    /\ HasSet(pipeLast.cacheOps)
    /\ pipeLast.plan.processingTimeMs = MaxLatency

----------------------------------------------------------------------------
(* C10 *)

\* C10 as stated: a message that gets to the rate limiter or to the message
\* handler gets a reply, but for two cases that get none: the duplicate guard
\* suppresses it, or it is an overage after the first warning of the window.
ReplyButTwoCases ==
    (botLast # NoCall /\ (botLast.reached \/ botLast.stoppedAt = "rateLimit")) =>
        (botLast.replies = << >>
            <=> (botLast.branch = "duplicate" \/ botLast.rate = "silent"))

\* C10, amended: a message pipelineHandler is called with gets a reply, but
\* for two cases that get none: the duplicate guard suppresses it, or its
\* text starts with a slash.  The rate limiter stops an overage before the
\* handler: the first of a window gets the warning, the later ones nothing.
ReplyButDuplicateOrCommand ==
    botLast # NoCall =>
        /\ botLast.reached =>
               (botLast.replies = << >>
                   <=> (\/ botLast.branch = "duplicate"
                        \/ startsWith(botLast.handlerText, Slash)))
        /\ botLast.stoppedAt = "rateLimit" =>
               /\ ~botLast.reached
               /\ botLast.replies = << >> <=> botLast.rate = "silent"
               /\ botLast.replies # << >> =>
                      /\ botLast.rate = "cooldown"
                      /\ Len(botLast.replies) = 1

\* The third update of a behaviour is "/report": no command of that name is
\* registered, pipelineHandler is called and returns without a reply.
ReplyButDuplicateOrCommandWitness ==
    /\ botLast # NoCall
    /\ botMsgs = 3
    /\ botLast.stoppedAt = "pipelineHandler"
    /\ botLast.reached
    /\ botLast.handlerText = BotText_report
    /\ botLast.replies = << >>
    /\ recentQueries # << >>

\* C11: one run of process issues at most one request to the remote model;
\* when the request fails, generate returns the fixed fallback text with no
\* tokens used, after that one request, and a run that no later stage fails
\* delivers that text.
NoRetry ==
    pipeLast # NoCall =>
        /\ pipeLast.remoteCalls \in {0, 1}
        /\ pipeLast.remoteCalls = 0 <=> pipeLast.remote = NoReply
        /\ pipeLast.remote \in RemoteFailures =>
               /\ pipeLast.remoteCalls = 1
               /\ pipeLast.generated.text = GenerationIssueText
               /\ pipeLast.generated.tokensUsed = 0
               /\ ~pipeLast.thrown => pipeLast.plan.message = GenerationIssueText

NoRetryWitness ==
    /\ pipeLast # NoCall
    /\ pipeLast.remote.kind = "timeout"
    /\ pipeLast.remoteCalls = 1
    /\ ~pipeLast.thrown
    /\ pipeLast.plan.message = GenerationIssueText
    /\ pipeLast.plan.formatted

\* C12: a chatCompletion call that has not returned has been running for at
\* most timeoutMs: when the remote model has not delivered headers and body
\* by then, the call is aborted and returns.
BoundedRemoteCall ==
    (request # NoCall /\ request.phase # "returned") =>
        now - request.startedAt <= TimeoutTicks

----------------------------------------------------------------------------
(* C13, C14, C15 *)

\* C13: in a group chat a message that neither mentions the bot nor starts
\* with a slash never causes a call of ctx.reply, in every mode and every
\* rate-limit state of its sender.
GroupReplyOnlyWhenAddressed ==
    (botLast # NoCall /\ botLast.chatType = "group" /\ ~botLast.addressed) =>
        botLast.replies = << >>

\* C14: while the mode is 'silent', no message of a group chat causes a call
\* of ctx.reply.
SilentGroupNoReply ==
    (botLast # NoCall /\ botLast.mode = "silent" /\ botLast.chatType = "group") =>
        botLast.replies = << >>

\* C15: from each of the three modes, a /mode command with a valid mode sent
\* by an administrator whom the rate limiter lets through reaches the handler
\* of /mode and puts the bot in the mode asked for.
AdminModeCommandWorks ==
    (/\ botLast # NoCall
     /\ botLast.admin
     /\ botLast.stoppedAt \notin {"ignoreBots", "rateLimit"}
     /\ \E m \in VALID_MODES : ModeTexts[m] = Trim(ToLowerCase(botLast.modeAsked))) =>
        /\ botLast.stoppedAt = "modeHandler"
        /\ ModeTexts[currentMode] = Trim(ToLowerCase(botLast.modeAsked))

----------------------------------------------------------------------------
(* C16, C17, C18 *)

\* C16: plan gives the strategy 'template' to every classification whose
\* responseClass is GREETING, CLOSING or REFUSAL, whatever its complexity.
TemplateMapping ==
    (applied.op = "plan"
        /\ applied.input.responseClass \in {"GREETING", "CLOSING", "REFUSAL"}) =>
        applied.result.strategy = "template"

\* A refusal of the highest complexity has been planned as a template.
TemplateMappingWitness ==
    /\ applied.op = "plan"
    /\ applied.input.responseClass = "REFUSAL"
    /\ applied.input.complexity = MaxComplexity
    /\ applied.result.strategy = "template"

\* C17 as stated: for FACTUAL, plan gives 'cache' exactly when the complexity
\* is below COMPLEXITY_THRESHOLDS.SIMPLE, and 'generate' for every other
\* FACTUAL complexity and for PROCEDURAL.
CacheBelowSimple ==
    (applied.op = "plan"
        /\ applied.input.responseClass \in {"FACTUAL", "PROCEDURAL"}) =>
        applied.result.strategy =
            IF /\ applied.input.responseClass = "FACTUAL"
               /\ applied.input.complexity < COMPLEXITY_THRESHOLDS.SIMPLE
            THEN "cache" ELSE "generate"

\* C17, amended: for FACTUAL, plan gives 'cache' exactly when the complexity
\* is at most COMPLEXITY_THRESHOLDS.SIMPLE, and 'generate' for every other
\* FACTUAL complexity and for PROCEDURAL.
CacheUpToSimple ==
    (applied.op = "plan"
        /\ applied.input.responseClass \in {"FACTUAL", "PROCEDURAL"}) =>
        applied.result.strategy =
            IF /\ applied.input.responseClass = "FACTUAL"
               /\ applied.input.complexity <= COMPLEXITY_THRESHOLDS.SIMPLE
            THEN "cache" ELSE "generate"

\* A FACTUAL classification whose complexity is the threshold itself has
\* been planned for the cache.
CacheUpToSimpleWitness ==
    /\ applied.op = "plan"
    /\ applied.input.responseClass = "FACTUAL"
    /\ applied.input.complexity = COMPLEXITY_THRESHOLDS.SIMPLE
    /\ applied.result.strategy = "cache"

\* C18 as stated: selectModel gives the fast tier when the complexity is
\* below COMPLEXITY_THRESHOLDS.MEDIUM and the quality tier at or above it.
FastBelowMedium ==
    applied.op = "selectModel" =>
        applied.result.model =
            IF applied.input.complexity < COMPLEXITY_THRESHOLDS.MEDIUM
            THEN "FAST" ELSE "QUALITY"

\* C18, amended: selectModel gives the fast tier when the complexity is at
\* most COMPLEXITY_THRESHOLDS.MEDIUM and the quality tier above it.
FastUpToMedium ==
    applied.op = "selectModel" =>
        applied.result.model =
            IF applied.input.complexity <= COMPLEXITY_THRESHOLDS.MEDIUM
            THEN "FAST" ELSE "QUALITY"

\* The model has been selected for a complexity that is the threshold itself.
FastUpToMediumWitness ==
    /\ applied.op = "selectModel"
    /\ applied.input.complexity = COMPLEXITY_THRESHOLDS.MEDIUM
    /\ applied.result.model = "FAST"

----------------------------------------------------------------------------
(* C19 *)

\* C19: validate rejects, with the error 'Contains forbidden content', every
\* text that is longer than the hard limit and contains a forbidden output
\* pattern anywhere; none is returned as valid because compression removed
\* the part that held the pattern.
ForbiddenLongTextRejected ==
    (/\ applied.op = "validate"
     /\ Len(applied.input) > ScaledHardLimit
     /\ ContainsForbiddenOutput(applied.input)) =>
        /\ ~applied.result.valid
        /\ applied.result.error = "Contains forbidden content"

----------------------------------------------------------------------------
(* C20 *)

\* C20: format applied to its own result, with the same query, returns that
\* result: format(format(t, q), q) = format(t, q) for every text and every
\* query, those for which verified links are appended included.
FormatIdempotent ==
    applied.op = "formatAgain" => applied.result.twice = applied.result.once

----------------------------------------------------------------------------
(* C21 *)

\* The URLs of a message: its words, as whitespace separates them, in which
\* a scheme separator "://" occurs.
UrlsIn(text) ==
    LET Starts == {i \in 1..Len(text) :
                      ~IsSpace(text[i]) /\ (i = 1 \/ IsSpace(text[i - 1]))}
        EndOf(i) == CHOOSE j \in i..Len(text) :
                        /\ \A k \in i..j : ~IsSpace(text[k])
                        /\ (j = Len(text) \/ IsSpace(text[j + 1]))
    IN  {word \in {SubSeq(text, i, EndOf(i)) : i \in Starts} :
            includes(word, <<58, 47, 47>>)}

\* The URLs of the verified links the triggers of the query select.
VerifiedUrls(query) ==
    {link.url : link \in Range(detectRelevantLinks(query))}

\* C21: the text format returns for a generated text and the user's query
\* holds no URL but those of the verified links the query selects.
OnlyVerifiedUrls ==
    applied.op = "format"
        => UrlsIn(applied.result.once) \subseteq VerifiedUrls(applied.input[2])

\* The example of the claim: the https URL of the generated text is gone and
\* the official website is appended.
OtherSiteReplaced ==
    /\ applied.op = "format"
    /\ applied.input = <<FormatText_otherSite, FormatQuery_website>>
    /\ UrlsIn(applied.result.once) = VerifiedUrls(FormatQuery_website)
    /\ VerifiedUrls(FormatQuery_website) # {}

----------------------------------------------------------------------------
(* C22 *)

\* The normalization of simpleHash applied to its own result returns it.
HashNormalizationIdempotent ==
    applied.op = "normalizedAgain" => applied.result.twice = applied.result.once

\* C22: both normalizations return their own results unchanged:
\* normalizeKey(normalizeKey(x)) = normalizeKey(x), and the same for the
\* normalization of simpleHash.
NormalizationIdempotent ==
    /\ applied.op = "normalizeKeyAgain" => applied.result.twice = applied.result.once
    /\ HashNormalizationIdempotent

----------------------------------------------------------------------------
(* C23 *)

\* The pattern families in the order checkForbidden is said to test them.
FamilyOrder ==
    <<"INVESTMENT_ADVICE", "PRICE_SPECULATION", "MARKET_SENTIMENT", "ADVERSARIAL">>

\* The families the phrases of a query belong to.
FamiliesOf(names) == UNION {Phrases[names[k]].families : k \in 1..Len(names)}

\* The earliest family of FamilyOrder among those of the query.
EarliestFamily(names) ==
    FamilyOrder[CHOOSE k \in 1..Len(FamilyOrder) :
                    /\ FamilyOrder[k] \in FamiliesOf(names)
                    /\ \A j \in 1..(k - 1) : FamilyOrder[j] \notin FamiliesOf(names)]

\* C23: checkForbidden labels a query with the earliest of the families
\* investment, price, sentiment, adversarial that one of its phrases belongs
\* to, wherever the phrase stands in the query, and a query with no phrase of
\* any family is not forbidden and has the intent null.
ForbiddenPrecedence ==
    applied.op = "checkForbidden"
        => IF FamiliesOf(applied.input) = {}
           THEN applied.result = [isForbidden |-> FALSE, intent |-> NoIntent]
           ELSE applied.result = [isForbidden |-> TRUE,
                                  intent |-> EarliestFamily(applied.input)]

\* A query whose first phrase is adversarial and whose later phrases belong
\* to two other families has been labelled.
ForbiddenPrecedenceWitness ==
    /\ applied.op = "checkForbidden"
    /\ applied.input = <<"adversarial", "sentiment", "price">>
    /\ applied.result.intent = "PRICE_SPECULATION"

----------------------------------------------------------------------------
(* C24 *)

\* generate has returned in the run, under the strategy 'cache'.
GeneratedUnderCache ==
    /\ pipeLast # NoCall
    /\ Len(pipeLast.calls) >= 5
    /\ plan(classifications[pipeLast.messageText]).strategy = "cache"

\* The order of the cache strategy: a static-fact match is returned without
\* a cache call or a remote call, a cache hit without a remote call, and the
\* remote model is called only after both have missed.
CacheStrategyOrder ==
    GeneratedUnderCache =>
        /\ factualMatches[pipeLast.messageText] # NoTemplate =>
               /\ pipeLast.generated =
                      GeneratedResponse(factualMatches[pipeLast.messageText],
                                        0, FALSE, TRUE)
               /\ pipeLast.cacheOps = << >>
               /\ pipeLast.remoteCalls = 0
        /\ factualMatches[pipeLast.messageText] = NoTemplate =>
               /\ pipeLast.cacheOps # << >>
               /\ pipeLast.cacheOps[1].op = "get"
               /\ pipeLast.cacheOps[1].hit =>
                      /\ pipeLast.generated.fromCache
                      /\ pipeLast.generated.tokensUsed = 0
                      /\ pipeLast.remoteCalls = 0
                      /\ Len(pipeLast.cacheOps) = 1
               /\ pipeLast.remoteCalls = 1 => ~pipeLast.cacheOps[1].hit

\* The run called the remote model and the call succeeded.
CallSucceeded ==
    /\ GeneratedUnderCache
    /\ pipeLast.remoteCalls = 1
    /\ pipeLast.remote.kind = "content"

\* The text of the run is stored under its query and read as fresh.
ResultStored ==
    \E cached \in {CacheGetResult(cache, pipeLast.messageText, now)} :
        cached.hit /\ cached.response = pipeLast.generated.text

\* C24, as stated: after every successful call under the cache strategy the
\* result is stored.
StoredAfterSuccess ==
    /\ CacheStrategyOrder
    /\ CallSucceeded => ResultStored

\* A query of the cache strategy that has no static-fact match and is stored
\* and fresh when its run begins is answered from the cache, with no remote
\* call.
RepeatServedFromCache ==
    [][(/\ pipeLast = NoCall
        /\ pipeLast' # NoCall
        /\ Len(pipeLast'.calls) >= 5
        /\ pipeLast'.messageText \in cacheQueries
        /\ CacheGetResult(cache, pipeLast'.messageText, now).hit)
          => /\ pipeLast'.generated =
                    GeneratedResponse(
                        CacheGetResult(cache, pipeLast'.messageText, now).response,
                        0, TRUE, FALSE)
             /\ pipeLast'.remoteCalls = 0]_vars

\* C24: the order of the cache strategy holds; after a successful call the
\* result is stored exactly when it is not empty and does not contain
\* 'error'; and a stored, fresh query is answered with fromCache = true and
\* no remote call.
CacheStrategyContract ==
    /\ [](/\ CacheStrategyOrder
          /\ CallSucceeded =>
                 (ResultStored <=>
                      /\ pipeLast.generated.text # << >>
                      /\ ~includes(pipeLast.generated.text, Text_error)))
    /\ RepeatServedFromCache

\* The second run of a query, within the TTL of what the first run stored,
\* has been answered from the cache.
CacheStrategyWitness ==
    /\ GeneratedUnderCache
    /\ pipeRuns = 2
    /\ pipeLast.generated = GeneratedResponse(Trim(Content_answer), 0, TRUE, FALSE)
    /\ pipeLast.remoteCalls = 0

----------------------------------------------------------------------------
(* C25 *)

\* generate has returned in the run, under the strategy 'template'.
GeneratedFromTemplate ==
    /\ pipeLast # NoCall
    /\ Len(pipeLast.calls) >= 5
    /\ plan(classifications[pipeLast.messageText]).strategy = "template"

\* C25: a run whose plan has the strategy 'template' makes no remote call
\* and no cache call and leaves the cache as it was, and generate returns a
\* text of the pool of the response class with tokensUsed = 0 and
\* fromTemplate = true.
TemplateNoSideEffects ==
    /\ [](GeneratedFromTemplate =>
            /\ pipeLast.remoteCalls = 0
            /\ pipeLast.remote = NoReply
            /\ pipeLast.cacheOps = << >>
            /\ pipeLast.generated.tokensUsed = 0
            /\ pipeLast.generated.fromTemplate
            /\ ~pipeLast.generated.fromCache
            /\ pipeLast.generated.text
                   \in Range(TemplatePool(classifications[pipeLast.messageText].responseClass,
                                          pipeLast.messageText)))
    /\ [][GeneratedFromTemplate' /\ pipeLast = NoCall => cache' = cache]_vars

\* The run of "hi": class GREETING, a text of the greeting pool.
TemplateNoSideEffectsWitness ==
    /\ GeneratedFromTemplate
    /\ pipeLast.messageText = Query_hi
    /\ classifications[Query_hi].responseClass = "GREETING"
    /\ pipeLast.generated.text \in Range(GREETING_TEMPLATES)
    /\ pipeLast.plan.message = pipeLast.generated.text

----------------------------------------------------------------------------
(* C26 *)

\* generate has got to generateFromAI in the run: no template was returned
\* and the cache was not hit.
ReachedGenerateFromAI ==
    /\ pipeLast # NoCall
    /\ Len(pipeLast.calls) >= 5
    /\ ~pipeLast.generated.fromTemplate
    /\ ~pipeLast.generated.fromCache

\* C26: while the knowledge is unavailable no run calls the remote model,
\* and generateFromAI returns the fixed knowledge-unavailable text with
\* tokensUsed = 0.
KnowledgeGate ==
    (pipeLast # NoCall /\ ~knowledgeAvailable) =>
        /\ pipeLast.remoteCalls = 0
        /\ pipeLast.remote = NoReply
        /\ ReachedGenerateFromAI =>
               pipeLast.generated
                   = GeneratedResponse(KnowledgeUnavailableText, 0, FALSE, FALSE)

\* A question for the model was asked while the knowledge was unavailable.
KnowledgeGateWitness ==
    /\ ReachedGenerateFromAI
    /\ ~knowledgeAvailable
    /\ pipeLast.messageText = Query_howToStake
    /\ pipeLast.generated.text = KnowledgeUnavailableText
    /\ pipeLast.remoteCalls = 0

----------------------------------------------------------------------------
(* C27 *)

\* C27: the complexity classify returns is an integer from 0 to 10, and it
\* is 0 when the intent is greeting or closing, whatever the length, the
\* question marks and the signal words of the query.
ComplexityBounds ==
    applied.op = "classify" =>
        /\ applied.result.complexity \in 0..MaxComplexity
        /\ applied.result.intent \in {"greeting", "closing"} =>
               applied.result.complexity = 0

\* A greeting with a signal word and three question marks has been
\* classified.
ComplexityBoundsWitness ==
    /\ applied.op = "classify"
    /\ applied.input = [opening |-> Opening_hi, signal |-> Signal_all,
                        padding |-> 0, marks |-> 3]
    /\ applied.result.intent = "greeting"
    /\ applied.result.complexity = 0

----------------------------------------------------------------------------
(* C28 *)

\* C28: for the keywords of every query plan returns, with between one and
\* three knowledge sections, the generic ones when no keyword maps to a
\* section.
SectionsOneToThree ==
    applied.op = "selectKnowledgeSections" =>
        /\ ~applied.result.thrown
        /\ Len(applied.result.knowledgeSections) \in 1..3
        /\ (\A k \in 1..Len(applied.result.keywords) :
                MappedSections(applied.result.keywords[k]).kind = "undefined")
               => applied.result.knowledgeSections = GenericSections

\* The same for the keywords that are no property of Object.prototype.
SectionsOneToThreeOwn ==
    (/\ applied.op = "selectKnowledgeSections"
     /\ \A k \in 1..Len(applied.result.keywords) :
            applied.result.keywords[k] \notin ObjectPrototypeNames) =>
        /\ ~applied.result.thrown
        /\ Len(applied.result.knowledgeSections) \in 1..3
        /\ (\A k \in 1..Len(applied.result.keywords) :
                MappedSections(applied.result.keywords[k]).kind = "undefined")
               => applied.result.knowledgeSections = GenericSections

----------------------------------------------------------------------------
(* C29 *)

HitsOf(c, key) == c[CacheIndex(c, key)].hits

\* A get that hits adds exactly 1 to the hits of its key and leaves the
\* other entries as they are.
HitCounted ==
    [][(cacheCalls' = cacheCalls + 1 /\ cacheLast'.op = "get" /\ cacheLast'.ret.hit)
         => /\ HitsOf(cache', normalizedKeys[cacheLast'.query])
                  = HitsOf(cache, normalizedKeys[cacheLast'.query]) + 1
            /\ \A i \in 1..Len(cache) :
                   cache[i].key # normalizedKeys[cacheLast'.query] => cache'[i] = cache[i]]_vars

\* C29: a get that hits adds exactly 1 to the hits of its key, and no step
\* lowers the hits of a key that is stored before and after it.
HitsNeverDecrease ==
    /\ HitCounted
    /\ [][\A key \in CacheKeys(cache) \cap CacheKeys(cache') :
              HitsOf(cache', key) >= HitsOf(cache, key)]_vars

\* The same, but for the set of a key that is already stored.
HitsNeverDecreaseButOverwrite ==
    /\ HitCounted
    /\ [][\A key \in CacheKeys(cache) \cap CacheKeys(cache') :
              \/ HitsOf(cache', key) >= HitsOf(cache, key)
              \/ /\ cacheLast'.op = "set"
                 /\ normalizedKeys[cacheLast'.query] = key
                 /\ HitsOf(cache', key) = 0]_vars

----------------------------------------------------------------------------
(* C30 *)

\* C30: validate rejects every text whose length without the whitespace
\* around it is below MIN_RESPONSE_LENGTH.
ShortTextRejected ==
    (/\ applied.op = "validate"
     /\ Len(Trim(applied.input)) < MIN_RESPONSE_LENGTH) =>
        ~applied.result.valid

\* The same for the texts that are themselves shorter than
\* MIN_RESPONSE_LENGTH, whitespace included.
ShortRawTextRejected ==
    (/\ applied.op = "validate"
     /\ Len(applied.input) < MIN_RESPONSE_LENGTH) =>
        /\ ~applied.result.valid
        /\ applied.result.error = "Response too short"

----------------------------------------------------------------------------
(* C31 *)

\* The last loader call was a reload that failed although knowledge was
\* available before it.
FailedReloadOfLoaded ==
    /\ knowledgeLast.op = "reloadKnowledge"
    /\ ~knowledgeLast.success
    /\ knowledgeLast.availableBefore

\* C31: after a reload that fails, knowledge that was loaded and valid
\* before it is still available and getKnowledgeContent returns the content
\* it returned before.
FailedReloadKeepsKnowledge ==
    FailedReloadOfLoaded =>
        /\ isKnowledgeAvailable(knowledgeCache)
        /\ getKnowledgeContent(knowledgeCache) = knowledgeLast.contentBefore

\* What the loader does instead: every failed load leaves no knowledge, and
\* the errors of that load.
FailedLoadLeavesNothing ==
    (knowledgeLast.op \in {"loadKnowledge", "reloadKnowledge"} /\ ~knowledgeLast.success) =>
        /\ ~isKnowledgeAvailable(knowledgeCache)
        /\ getKnowledgeContent(knowledgeCache) = "null"
        /\ knowledgeCache.errors = knowledgeLast.errors
        /\ knowledgeCache.errors # << >>

----------------------------------------------------------------------------
(* C32 *)

\* The step is an isDuplicate call that stores its query: real arguments and
\* the result false.
DupInsertion ==
    /\ dupCalls' = dupCalls + 1
    /\ dupLast'.userId # NoUser
    /\ dupLast'.query # << >>
    /\ ~dupLast'.ret

OtherKeys(store, key) == SelectSeq(store, LAMBDA e : e.key # key)

\* What an insertion under key leaves of the records of store: the records
\* of the other keys, in their order, and one record of key, made now.
KeepsAllBut(store, key) ==
    /\ OtherKeys(recentQueries', key) = OtherKeys(store, key)
    /\ \E i \in 1..Len(recentQueries') :
          /\ recentQueries'[i].key = key
          /\ recentQueries'[i].timestamp = now
          /\ recentQueries'[i].hash = QueryHash(dupLast'.query)
          /\ \A j \in 1..Len(recentQueries') : recentQueries'[j].key = key => j = i

DupInsertionEvictsFirst ==
    DupInsertion =>
        \E key \in {DupKeyOf(dupLast'.userId, dupLast'.chatId)} :
            IF Len(recentQueries) >= MAX_ENTRIES
            THEN /\ KeepsAllBut(Tail(recentQueries), key)
                 /\ Head(recentQueries).key # key =>
                       \A i \in 1..Len(recentQueries') :
                           recentQueries'[i].key # Head(recentQueries).key
            ELSE KeepsAllBut(recentQueries, key)

----------------------------------------------------------------------------
(* C33 *)

MaxLaterCalls == 2

\* The calls that may follow a sweep: each some ticks after the one before.
LaterMessages == [dt : 0..1, userId : UserIds]
LaterQueries ==
    [dt : 0..1, userId : UserIds, chatId : ChatIds \cup {NoChat},
     query : SweepQueries]

\* The outcomes of the rate limiter for the messages msgs, the first one
\* arriving at t + msgs[1].dt, starting from store.
RECURSIVE RateOutcomes(_, _, _, _)
RateOutcomes(store, msgs, t, maxM) ==
    IF msgs = << >> THEN << >>
    ELSE LET at == t + Head(msgs).dt IN
            <<RateLimitDecision(store, Head(msgs).userId, at, maxM)>>
            \o RateOutcomes(RateLimitStoreAfter(store, Head(msgs).userId, at),
                            Tail(msgs), at, maxM)

\* The results of isDuplicate for the calls, starting from store.
RECURSIVE DupOutcomes(_, _, _)
DupOutcomes(store, calls, t) ==
    IF calls = << >> THEN << >>
    ELSE LET at == t + Head(calls).dt
             c == Head(calls)
         IN <<IsDuplicateResult(store, c.userId, c.chatId, c.query, at)>>
            \o DupOutcomes(DupStoreAfter(store, c.userId, c.chatId, c.query, at),
                           Tail(calls), at)

\* The step is a sweep of the rate limiter that deleted something.
RateSweepStep ==
    /\ rlLog' = rlLog
    /\ rateLimitStore' # rateLimitStore

\* The step is a sweep of the duplicate guard that deleted something: what
\* is left are the records with now - timestamp <= DUPLICATE_WINDOW_MS.
DupSweepStep ==
    /\ dupCalls' = dupCalls
    /\ recentQueries' # recentQueries
    /\ recentQueries' = SelectSeq(recentQueries,
          LAMBDA e : ~(now - e.timestamp > DUPLICATE_WINDOW_MS))

\* The rate limiter's half of C33: the messages that follow a sweep get the
\* outcomes they would have got had the sweep not fired.
RateSweepPreserves ==
    [][RateSweepStep =>
          \A msgs \in [1..MaxLaterCalls -> LaterMessages] :
              RateOutcomes(rateLimitStore', msgs, now, maxMessages)
                  = RateOutcomes(rateLimitStore, msgs, now, maxMessages)]_vars

\* C33: the sweeps delete expired records only, and the isDuplicate calls
\* that follow a sweep of the duplicate guard return what they would have
\* returned had the sweep not fired.
DupSweepPreserves ==
    [][DupSweepStep =>
          \A calls \in [1..MaxLaterCalls -> LaterQueries] :
              DupOutcomes(recentQueries', calls, now)
                  = DupOutcomes(recentQueries, calls, now)]_vars

\* The same while the store is not full: below MAX_ENTRIES after the later
\* calls even had nothing been swept.
DupSweepPreservesBelowCapacity ==
    [][(DupSweepStep /\ Len(recentQueries) + MaxLaterCalls <= MAX_ENTRIES + 1) =>
          \A calls \in [1..MaxLaterCalls -> LaterQueries] :
              DupOutcomes(recentQueries', calls, now)
                  = DupOutcomes(recentQueries, calls, now)]_vars

----------------------------------------------------------------------------
(* C34 *)

\* C34: a text validate returns as valid is at most as long as the hard
\* limit, whatever the length of the generated text.
ValidLengthCeiling ==
    (applied.op = "validate" /\ applied.result.valid) =>
        Len(applied.result.text) <= ScaledHardLimit

\* The same for the texts that are not repaired as incomplete.
ValidLengthCeilingUnlessRepaired ==
    (/\ applied.op = "validate"
     /\ applied.result.valid
     /\ ~endsWith(applied.result.text, TruncationNote)) =>
        Len(applied.result.text) <= ScaledHardLimit

----------------------------------------------------------------------------
(* C35 *)

\* The messages of rlLog that fell into the window of user u that ends at r.
WindowOf(u, r) ==
    {i \in 1..Len(rlLog) : rlLog[i].user = u /\ rlLog[i].resetTime = r}

WindowEnds == {rlLog[i].resetTime : i \in 1..Len(rlLog)}

RECURSIVE RepliesIn(_)
RepliesIn(S) ==
    IF S = {} THEN 0
    ELSE LET i == CHOOSE i \in S : TRUE IN handlers[i].replies + RepliesIn(S \ {i})

\* C35: however the handlers of one user's messages interleave, each message
\* is counted once, the messages over the limit are never passed to next(),
\* and in a window exactly one of them, the first, gets the cooldown reply.
SingleCooldownNotice ==
    /\ Len(handlers) = Len(rlLog)
    /\ \A u \in UserIds, r \in WindowEnds :
          \E W \in {WindowOf(u, r)} :
             /\ \A i \in W : rlLog[i].count = Cardinality({j \in W : j <= i})
             /\ \A i \in W : rlLog[i].count > maxMessages =>
                   /\ rlLog[i].outcome # "next"
                   /\ handlers[i].pc # "downstream"
             /\ \A i \in W : rlLog[i].count <= maxMessages =>
                   /\ rlLog[i].outcome = "next"
                   /\ handlers[i].pc # "replying"
                   /\ handlers[i].replies = 0
             /\ Cardinality({i \in W : rlLog[i].outcome = "cooldown"})
                   = IF Cardinality(W) > maxMessages THEN 1 ELSE 0
             /\ RepliesIn(W) <= 1

\* The handler of the message that went over the limit is still suspended
\* at its reply, a handler of an earlier message of the window is still
\* inside next(), and a later message of the window has been dropped.
SingleCooldownNoticeWitness ==
    \E i, j, k \in 1..Len(rlLog) :
       /\ i < j /\ j < k
       /\ rlLog[i].user = rlLog[j].user /\ rlLog[j].user = rlLog[k].user
       /\ rlLog[i].resetTime = rlLog[j].resetTime
       /\ rlLog[j].resetTime = rlLog[k].resetTime
       /\ handlers[i].pc = "downstream"
       /\ handlers[j].pc = "replying"
       /\ rlLog[k].outcome = "silent"

----------------------------------------------------------------------------
(* C36 *)

\* The step is the middleware handling one message.
MessageHandled == Len(rlLog') = Len(rlLog) + 1

\* C36: the middleware handling a message of one user neither creates nor
\* changes nor deletes the record of any other user, and the outcomes of a
\* user's messages are a function of the times of that user's own messages.
RateLimitIsolation ==
    /\ [][MessageHandled =>
             \A b \in UserIds \ {rlLog'[Len(rlLog')].user} :
                /\ (b \in DOMAIN rateLimitStore') = (b \in DOMAIN rateLimitStore)
                /\ b \in DOMAIN rateLimitStore =>
                      rateLimitStore'[b] = rateLimitStore[b]]_vars
    /\ [](\A u \in UserIds :
             OutcomesOf(rlLog, u) = WindowRule(TimesOf(rlLog, u), -1, 0, maxMessages))

\* One user is in cooldown, and a message of another user, arriving after
\* that in the same window, has opened that user's own window and passed.
RateLimitIsolationWitness ==
    \E i, j \in 1..Len(rlLog) :
       /\ j = Len(rlLog) /\ i < j
       /\ rlLog[i].user # NoUser /\ rlLog[j].user # NoUser
       /\ rlLog[i].user # rlLog[j].user
       /\ rlLog[i].outcome = "cooldown"
       /\ rlLog[j].time <= rlLog[i].resetTime
       /\ rlLog[j].outcome = "next" /\ rlLog[j].count = 1
       /\ rlLog[i].user \in DOMAIN rateLimitStore
       /\ rateLimitStore[rlLog[i].user].count = rlLog[i].count

----------------------------------------------------------------------------
(* C37 *)

\* The step is an isDuplicate call with a user and a text.
DupCalled ==
    /\ dupCalls' = dupCalls + 1
    /\ dupLast'.userId # NoUser
    /\ dupLast'.query # << >>

\* The record of the caller's key holds the hash of the text of the call and
\* is at least one window old.
RecordedWindowAgo ==
    \E i \in 1..Len(recentQueries) :
       /\ recentQueries[i].key = DupKeyOf(dupLast'.userId, dupLast'.chatId)
       /\ recentQueries[i].hash = QueryHash(dupLast'.query)
       /\ now - recentQueries[i].timestamp >= DUPLICATE_WINDOW_MS

\* C37: an isDuplicate call that returns true changes nothing in the store,
\* so the record keeps the time of the first occurrence; and a repeat that
\* arrives a window length or more after that time returns false and is
\* recorded with its own time.
DupWindowAnchored ==
    /\ [][(DupCalled /\ dupLast'.ret) => recentQueries' = recentQueries]_vars
    /\ [][(DupCalled /\ RecordedWindowAgo) =>
             /\ ~dupLast'.ret
             /\ \E i \in 1..Len(recentQueries') :
                   /\ recentQueries'[i].key = DupKeyOf(dupLast'.userId, dupLast'.chatId)
                   /\ recentQueries'[i].timestamp = now]_vars

\* Three calls of one user with one text: recorded at time 0, and exactly
\* one window later the text is not a duplicate and is recorded again.
DupWindowAnchoredWitness ==
    /\ dupLast.op = "isDuplicate"
    /\ ~dupLast.ret
    /\ dupCalls = 3
    /\ now = DUPLICATE_WINDOW_MS
    /\ Len(recentQueries) = 1
    /\ recentQueries[1].key = DupKeyOf(dupLast.userId, dupLast.chatId)
    /\ recentQueries[1].text = dupLast.query
    /\ recentQueries[1].timestamp = now

----------------------------------------------------------------------------
(* C38 *)

\* The step is a set for a query whose key is stored.
SetOverwrites ==
    /\ cacheLast'.op = "set"
    /\ cacheCalls' = cacheCalls + 1
    /\ normalizeKey(cacheLast'.query) \in CacheKeys(cache)

EntriesBut(c, key) == SelectSeq(c, LAMBDA e : e.key # key)

\* C38: a set for a query whose key is stored replaces the entry of that key
\* and leaves every other entry in the store, whatever the size of the store.
OverwriteKeepsOthers ==
    [][SetOverwrites =>
          EntriesBut(cache', normalizeKey(cacheLast'.query))
              = EntriesBut(cache, normalizeKey(cacheLast'.query))]_vars

\* The same while the store is below MAX_CACHE_SIZE.
OverwriteKeepsOthersBelowCapacity ==
    [][(SetOverwrites /\ Len(cache) < MAX_CACHE_SIZE) =>
          /\ EntriesBut(cache', normalizeKey(cacheLast'.query))
                = EntriesBut(cache, normalizeKey(cacheLast'.query))
          /\ Len(cache') = Len(cache)]_vars

----------------------------------------------------------------------------
(* C39 *)

\* The mode a name stands for once it is lowercased and trimmed, if any.
ModesNamed(mode) ==
    {m \in VALID_MODES : ModeTexts[m] = Trim(ToLowerCase(mode))}

\* C39: the mode is always one of normal, silent and maintenance; setMode
\* with a name that is valid once lowercased and trimmed sets that mode and
\* returns true; setMode with any other string returns false and leaves the
\* mode as it was.
ModeStateMachine ==
    /\ currentMode \in {"normal", "silent", "maintenance"}
    /\ applied.op = "setMode" =>
          IF ModesNamed(applied.input) # {}
          THEN /\ applied.result.returned
               /\ ModesNamed(applied.input) = {currentMode}
               /\ isValidMode(applied.input)
          ELSE /\ ~applied.result.returned
               /\ currentMode = applied.result.previousMode
               /\ ~isValidMode(applied.input)

\* "  Silent " has put the bot into the silent mode, out of another mode.
ModeStateMachineWitness ==
    /\ applied.op = "setMode"
    /\ applied.input = ModeName_paddedSilent
    /\ applied.result.returned
    /\ applied.result.previousMode = "maintenance"
    /\ currentMode = "silent"

\* A string that names no mode was refused while the bot was silent.
ModeRefusedWitness ==
    /\ applied.op = "setMode"
    /\ applied.input \in {ModeName_off, ModeName_twoWords, ModeName_split}
    /\ ~applied.result.returned
    /\ currentMode = "silent"

====
